---- MODULE Spec2Model ----
(***************************************************************************)
(* phredsort: quality-based sorting of FASTQ/FASTA records.                *)
(*                                                                         *)
(* The module models the ordering layer (QualityFloatList,                 *)
(* HeaderSortIndexList, PreSortRecordList, QualityIndexList and the        *)
(* sort.Sort calls that use them), the quality metrics, the header-driven  *)
(* run (runPresort) with its chunk channel, and the sort command           *)
(* (sortRecords) with its plain and compressed record stores.              *)
(*                                                                         *)
(* Strings are sequences of byte values (ASCII codes); floating-point      *)
(* values are points of an integer grid, see float32 below.                *)
(***************************************************************************)
EXTENDS Integers, Sequences, FiniteSets, TLC

VARIABLES
    engine,     \* which sort.Interface implementation the run uses
    metric,     \* QualityMetric of the run
    ascending,  \* the --ascending flag
    input,      \* the entries in the order in which they were appended
    items,      \* the list handed to sort.Sort (sorted in place)
    ids,        \* HeaderSortIndexList.ids
    pc,         \* position of the run
    lessM,      \* results of Less(i, j) recorded by the comparator probes
    minQual,    \* --minqual
    maxQual,    \* --maxqual
    file,       \* the records of the input file
    rpos,       \* reader: index of the next record of the file
    ch,         \* the chunk channel of reader.ChunkChan
    chClosed,   \* whether the channel has been closed
    records,    \* runPresort: records kept for output
    idx,        \* runPresort: next value of Index
    out,        \* the records written to the output
    err,        \* the error the run returned ("" for none)
    storage,    \* sortCompressed: the CompactStorage
    wpos,       \* sort command: position of the write loop
    compLevel,  \* --compress
    flags,      \* the other command-line flags of the sort command
    handles,    \* state of the reader, the writer and the codec handles
    proc,       \* whether the process has ended, and its exit code
    returned    \* what a function under study returned for the input

ordVars == <<engine, metric, ascending, input, items, ids, pc, lessM>>

runVars ==
    <<minQual, maxQual, file, rpos, ch, chClosed, records, idx, out, err,
      storage, wpos, compLevel, flags, handles, proc, returned>>

vars == <<engine, metric, ascending, input, items, ids, pc, lessM,
          minQual, maxQual, file, rpos, ch, chClosed, records, idx, out, err,
          storage, wpos, compLevel, flags, handles, proc, returned>>

(***************************************************************************)
(* QualityMetric                                                           *)
(***************************************************************************)
AvgPhred == "avgphred"
MaxEE == "maxee"
Meep == "meep"
LQCount == "lqcount"
LQPercent == "lqpercent"

Metrics == {AvgPhred, MaxEE, Meep, LQCount, LQPercent}

(***************************************************************************)
(* Names.  A name is a sequence of bytes.                                  *)
(***************************************************************************)
seq1 == <<115, 101, 113, 49>>          \* "seq1"
seq2 == <<115, 101, 113, 50>>          \* "seq2"
seq10 == <<115, 101, 113, 49, 48>>     \* "seq10"
seq3x == <<115, 101, 113, 51, 120>>    \* "seq3x"
seq03x == <<115, 101, 113, 48, 51, 120>>   \* "seq03x"

Names == {seq1, seq2, seq10, seq3x, seq03x}

\* The ids drawn for the header comparators.
HeaderIds == {seq1, seq2, seq10, seq3x}

IsDigit(c) == c >= 48 /\ c <= 57

\* Sequence s without its first n elements.
Drop(s, n) == SubSeq(s, n + 1, Len(s))

\* Length of the run of digits at the start of s.
RECURSIVE digits(_)
digits(s) ==
    IF s = <<>> \/ ~IsDigit(Head(s)) THEN 0 ELSE 1 + digits(Tail(s))

\* Decimal value of a sequence of digits.
RECURSIVE ParseUint(_)
ParseUint(s) ==
    IF s = <<>> THEN 0 ELSE 10 * ParseUint(SubSeq(s, 1, Len(s) - 1)) + (s[Len(s)] - 48)

\* natural.Less: runs of digits compare by numeric value, everything else
\* byte by byte; a proper prefix sorts first.
RECURSIVE NaturalCompare(_, _)
NaturalCompare(a, b) ==
    IF a = <<>> THEN b # <<>>
    ELSE IF b = <<>> THEN FALSE
    ELSE IF IsDigit(Head(a)) /\ IsDigit(Head(b))
    THEN LET ia == digits(a)
             ib == digits(b)
             an == ParseUint(SubSeq(a, 1, ia))
             bn == ParseUint(SubSeq(b, 1, ib))
         IN  IF an # bn THEN an < bn
             ELSE NaturalCompare(Drop(a, ia), Drop(b, ib))
    ELSE IF Head(a) # Head(b) THEN Head(a) < Head(b)
    ELSE NaturalCompare(Tail(a), Tail(b))

NaturalTable == [p \in Names \X Names |-> NaturalCompare(p[1], p[2])]

NaturalLess(a, b) == NaturalTable[<<a, b>>]

\* Plain byte-wise string comparison (Go's a < b on strings).
RECURSIVE BytewiseCompare(_, _)
BytewiseCompare(a, b) ==
    IF a = <<>> THEN b # <<>>
    ELSE IF b = <<>> THEN FALSE
    ELSE IF Head(a) # Head(b) THEN Head(a) < Head(b)
    ELSE BytewiseCompare(Tail(a), Tail(b))

BytewiseTable == [p \in Names \X Names |-> BytewiseCompare(p[1], p[2])]

(***************************************************************************)
(* Bounds and value universes of the ordering layer                        *)
(***************************************************************************)
MaxItems == 3          \* longest QualityFloatList
MaxHeaderItems == 2    \* longest HeaderSortIndexList / PreSortRecordList

Values == {1, 2}       \* metric values
Sizes == {1, 2}        \* size= annotations

LowerIsBetter(m) == m = MaxEE \/ m = Meep \/ m = LQCount \/ m = LQPercent

(***************************************************************************)
(* QualityFloatList (phredsort.go)                                         *)
(***************************************************************************)
QualityFloat(name, value, m) == [Name |-> name, Value |-> value, Metric |-> m]

getMetricFromValue(list) ==
    IF Len(list) > 0 THEN list[1].Metric ELSE AvgPhred

\* Mutant: the tie-break compares the names byte by byte.
QualityFloatListLessBytewise(list, asc, i, j) ==
    LET m == getMetricFromValue(list)
        result ==
            IF LowerIsBetter(m)
            THEN IF list[i].Value # list[j].Value
                 THEN list[i].Value < list[j].Value
                 ELSE BytewiseTable[<<list[i].Name, list[j].Name>>]
            ELSE IF list[i].Value # list[j].Value
                 THEN list[i].Value > list[j].Value
                 ELSE BytewiseTable[<<list[i].Name, list[j].Name>>]
    IN  IF asc THEN ~result ELSE result

\* Mutant: Meep is treated as a higher-is-better metric.
QualityFloatListLessPolarity(list, asc, i, j) ==
    LET m == getMetricFromValue(list)
        result ==
            IF m = MaxEE \/ m = LQCount \/ m = LQPercent
            THEN IF list[i].Value # list[j].Value
                 THEN list[i].Value < list[j].Value
                 ELSE NaturalLess(list[i].Name, list[j].Name)
            ELSE IF list[i].Value # list[j].Value
                 THEN list[i].Value > list[j].Value
                 ELSE NaturalLess(list[i].Name, list[j].Name)
    IN  IF asc THEN ~result ELSE result

QualityFloatListLess(list, asc, i, j) ==
    LET m == getMetricFromValue(list)
        result ==
            IF m = MaxEE \/ m = Meep \/ m = LQCount \/ m = LQPercent
            THEN IF list[i].Value # list[j].Value
                 THEN list[i].Value < list[j].Value
                 ELSE NaturalLess(list[i].Name, list[j].Name)
            ELSE IF list[i].Value # list[j].Value
                 THEN list[i].Value > list[j].Value
                 ELSE NaturalLess(list[i].Name, list[j].Name)
    IN  IF asc THEN ~result ELSE result

Swap(list, i, j) == [list EXCEPT ![i] = list[j], ![j] = list[i]]

(***************************************************************************)
(* sort.Sort.  For a list of at most 12 elements sort.Sort is an insertion *)
(* sort: for i := 1; i < n; i++ { for j := i; j > 0 && Less(j, j-1); j--   *)
(* { Swap(j, j-1) } }.  Indices are 1-based here.                          *)
(***************************************************************************)
RECURSIVE QFInner(_, _, _)
QFInner(list, asc, j) ==
    IF j > 1 /\ QualityFloatListLess(list, asc, j, j - 1)
    THEN QFInner(Swap(list, j, j - 1), asc, j - 1)
    ELSE list

RECURSIVE QFOuter(_, _, _)
QFOuter(list, asc, i) ==
    IF i > Len(list) THEN list ELSE QFOuter(QFInner(list, asc, i), asc, i + 1)

SortQualityFloatList(list, asc) == QFOuter(list, asc, 2)

(***************************************************************************)
(* HeaderSortIndexList: items refer to ids by Index.                       *)
(***************************************************************************)
HeaderSortIndex(index, q, size, hasSize) ==
    [Index |-> index, Quality |-> q, Size |-> size, HasSize |-> hasSize]

\* Mutant: the size key is compared without regard to the ascending flag.
HeaderSortIndexListLessSizeFixed(list, idl, asc, m, i, j) ==
    LET qi == list[i].Quality
        qj == list[j].Quality
    IN  IF qi # qj
        THEN LET result == IF LowerIsBetter(m) THEN qi < qj ELSE qi > qj
             IN  IF asc THEN ~result ELSE result
        ELSE IF list[i].HasSize /\ list[j].HasSize /\ list[i].Size # list[j].Size
        THEN list[i].Size > list[j].Size
        ELSE NaturalLess(idl[list[i].Index], idl[list[j].Index])

HeaderSortIndexListLess(list, idl, asc, m, i, j) ==
    LET qi == list[i].Quality
        qj == list[j].Quality
    IN  IF qi # qj
        THEN LET result ==
                     IF m = MaxEE \/ m = Meep \/ m = LQCount \/ m = LQPercent
                     THEN qi < qj
                     ELSE qi > qj
             IN  IF asc THEN ~result ELSE result
        ELSE IF list[i].HasSize /\ list[j].HasSize /\ list[i].Size # list[j].Size
        THEN IF asc THEN list[i].Size < list[j].Size
                    ELSE list[i].Size > list[j].Size
        ELSE NaturalLess(idl[list[i].Index], idl[list[j].Index])

RECURSIVE HSInner(_, _, _, _, _)
HSInner(list, idl, asc, m, j) ==
    IF j > 1 /\ HeaderSortIndexListLess(list, idl, asc, m, j, j - 1)
    THEN HSInner(Swap(list, j, j - 1), idl, asc, m, j - 1)
    ELSE list

RECURSIVE HSOuter(_, _, _, _, _)
HSOuter(list, idl, asc, m, i) ==
    IF i > Len(list) THEN list
    ELSE HSOuter(HSInner(list, idl, asc, m, i), idl, asc, m, i + 1)

SortHeaderSortIndexList(list, idl, asc, m) == HSOuter(list, idl, asc, m, 2)

(***************************************************************************)
(* PreSortRecordList (command_headersort.go): the record carries its ID.   *)
(***************************************************************************)
PreSortRecord(id, q, size, hasSize) ==
    [ID |-> id, Quality |-> q, Size |-> size, HasSize |-> hasSize]

PreSortRecordListLess(list, asc, m, i, j) ==
    IF list[i].Quality # list[j].Quality
    THEN LET result ==
                 IF m = MaxEE \/ m = Meep \/ m = LQCount \/ m = LQPercent
                 THEN list[i].Quality < list[j].Quality
                 ELSE list[i].Quality > list[j].Quality
         IN  IF asc THEN ~result ELSE result
    ELSE IF list[i].HasSize /\ list[j].HasSize /\ list[i].Size # list[j].Size
    THEN IF asc THEN list[i].Size < list[j].Size
                ELSE list[i].Size > list[j].Size
    ELSE NaturalLess(list[i].ID, list[j].ID)

RECURSIVE PSInner(_, _, _, _)
PSInner(list, asc, m, j) ==
    IF j > 1 /\ PreSortRecordListLess(list, asc, m, j, j - 1)
    THEN PSInner(Swap(list, j, j - 1), asc, m, j - 1)
    ELSE list

RECURSIVE PSOuter(_, _, _, _)
PSOuter(list, asc, m, i) ==
    IF i > Len(list) THEN list
    ELSE PSOuter(PSInner(list, asc, m, i), asc, m, i + 1)

SortPreSortRecordList(list, asc, m) == PSOuter(list, asc, m, 2)

\* The variables of a file run, when no file run is modelled.
NoRun ==
    /\ minQual = 0
    /\ maxQual = 0
    /\ file = <<>>
    /\ rpos = 1
    /\ ch = <<>>
    /\ chClosed = FALSE
    /\ records = <<>>
    /\ idx = 1
    /\ out = <<>>
    /\ err = ""
    /\ storage = <<>>
    /\ wpos = 1
    /\ compLevel = 0
    /\ flags = <<>>
    /\ handles = <<>>
    /\ proc = <<>>
    /\ returned = <<>>

(***************************************************************************)
(* The ordering runs.  A run collects entries in input order, as the read  *)
(* loops of sortStdin and runPresort do, and then calls sort.Sort once.    *)
(***************************************************************************)
Engines == {"qf", "hs", "ps"}

OrderInit ==
    /\ engine \in Engines
    /\ metric \in Metrics
    /\ ascending \in BOOLEAN
    /\ input = <<>>
    /\ items = <<>>
    /\ ids = <<>>
    /\ pc = "collect"
    /\ lessM = <<>>
    /\ NoRun

\* name2avgQual = append(name2avgQual, QualityFloat{Name, Value, Metric})
AppendQualityFloat ==
    /\ engine = "qf"
    /\ pc = "collect"
    /\ Len(items) < MaxItems
    /\ \E name \in Names, value \in Values :
          /\ items' = Append(items, QualityFloat(name, value, metric))
          /\ input' = Append(input, QualityFloat(name, value, metric))
    /\ UNCHANGED <<engine, metric, ascending, ids, pc, lessM>>
    /\ UNCHANGED runVars

\* qualityList := NewQualityFloatList(name2avgQual, ascending); sort.Sort(qualityList)
SortQualityFloat ==
    /\ engine = "qf"
    /\ pc = "collect"
    /\ items' = SortQualityFloatList(items, ascending)
    /\ pc' = "sorted"
    /\ UNCHANGED <<engine, metric, ascending, input, ids, lessM>>
    /\ UNCHANGED runVars

\* ids = append(ids, id); sortIndices = append(sortIndices, HeaderSortIndex{idx, ...}); idx++
AppendHeaderSortIndex ==
    /\ engine = "hs"
    /\ pc = "collect"
    /\ Len(items) < MaxHeaderItems
    /\ \E id \in HeaderIds, q \in Values, hasSize \in BOOLEAN :
       \E size \in (IF hasSize THEN Sizes ELSE {0}) :
          LET e == HeaderSortIndex(Len(items) + 1, q, size, hasSize)
          IN  /\ items' = Append(items, e)
              /\ input' = Append(input, e)
              /\ ids' = Append(ids, id)
    /\ UNCHANGED <<engine, metric, ascending, pc, lessM>>
    /\ UNCHANGED runVars

\* sortList := NewHeaderSortIndexList(sortIndices, ids, ascending, metric); sort.Sort(sortList)
SortHeaderSortIndex ==
    /\ engine = "hs"
    /\ pc = "collect"
    /\ items' = SortHeaderSortIndexList(items, ids, ascending, metric)
    /\ pc' = "sorted"
    /\ UNCHANGED <<engine, metric, ascending, input, ids, lessM>>
    /\ UNCHANGED runVars

\* records = append(records, presortRecord)
AppendPreSortRecord ==
    /\ engine = "ps"
    /\ pc = "collect"
    /\ Len(items) < MaxHeaderItems
    /\ \E id \in HeaderIds, q \in Values, hasSize \in BOOLEAN :
       \E size \in (IF hasSize THEN Sizes ELSE {0}) :
          LET e == PreSortRecord(id, q, size, hasSize)
          IN  /\ items' = Append(items, e)
              /\ input' = Append(input, e)
    /\ UNCHANGED <<engine, metric, ascending, ids, pc, lessM>>
    /\ UNCHANGED runVars

\* recordList := NewPreSortRecordList(records, ascending, metric); sort.Sort(recordList)
SortPreSortRecord ==
    /\ engine = "ps"
    /\ pc = "collect"
    /\ items' = SortPreSortRecordList(items, ascending, metric)
    /\ pc' = "sorted"
    /\ UNCHANGED <<engine, metric, ascending, input, ids, lessM>>
    /\ UNCHANGED runVars

Next ==
    \/ AppendQualityFloat
    \/ SortQualityFloat
    \/ AppendHeaderSortIndex
    \/ SortHeaderSortIndex
    \/ AppendPreSortRecord
    \/ SortPreSortRecord

Spec == OrderInit /\ [][Next]_vars

(***************************************************************************)
(* Comparator probes: Less(i, j) of the two header comparators on every    *)
(* pair of positions of a list of three parsed headers.                    *)
(***************************************************************************)
HeaderEntries ==
    {[id |-> id, q |-> q, size |-> size, hasSize |-> hasSize] :
        id \in HeaderIds, q \in Values, size \in Sizes, hasSize \in {TRUE}}
    \cup
    {[id |-> id, q |-> q, size |-> 0, hasSize |-> FALSE] :
        id \in HeaderIds, q \in Values}

LessInit ==
    /\ engine \in {"hs", "ps"}
    /\ metric \in Metrics
    /\ ascending \in BOOLEAN
    /\ input = <<>>
    /\ items = <<>>
    /\ ids = <<>>
    /\ pc = "collect"
    /\ lessM = <<>>
    /\ NoRun

ProbeHeaderSortIndexLess ==
    /\ engine = "hs"
    /\ pc = "collect"
    /\ \E a \in HeaderEntries, b \in HeaderEntries, c \in HeaderEntries :
          LET es == <<a, b, c>>
              list == [k \in 1..3 |->
                          HeaderSortIndex(k, es[k].q, es[k].size, es[k].hasSize)]
              idl == [k \in 1..3 |-> es[k].id]
          IN  /\ items' = list
              /\ ids' = idl
              /\ lessM' = [p \in (1..3) \X (1..3) |->
                              HeaderSortIndexListLess(list, idl, ascending, metric,
                                                      p[1], p[2])]
    /\ pc' = "probed"
    /\ UNCHANGED <<engine, metric, ascending, input>>
    /\ UNCHANGED runVars

ProbePreSortRecordLess ==
    /\ engine = "ps"
    /\ pc = "collect"
    /\ \E a \in HeaderEntries, b \in HeaderEntries, c \in HeaderEntries :
          LET es == <<a, b, c>>
              list == [k \in 1..3 |->
                          PreSortRecord(es[k].id, es[k].q, es[k].size, es[k].hasSize)]
          IN  /\ items' = list
              /\ lessM' = [p \in (1..3) \X (1..3) |->
                              PreSortRecordListLess(list, ascending, metric, p[1], p[2])]
    /\ pc' = "probed"
    /\ UNCHANGED <<engine, metric, ascending, input, ids>>
    /\ UNCHANGED runVars

LessNext == ProbeHeaderSortIndexLess \/ ProbePreSortRecordLess

SpecLess == LessInit /\ [][LessNext]_vars

(***************************************************************************)
(* Floating-point values.  A float64 is an integer point of the grid       *)
(* -MaxFloat64..MaxFloat64, or one of the infinities -Inf, Inf.  The        *)
(* float32 values are the multiples of Float32Step up to MaxFloat32, and   *)
(* the infinities.                                                         *)
(***************************************************************************)
Float32Step == 3
MaxFloat32 == 30000
MaxFloat64 == 60000
Inf == 60001

\* The conversion float32(x): round to the nearest float32 value; a value
\* beyond the float32 range becomes an infinity.
float32(x) ==
    LET r == x % Float32Step
        n == IF r = 0 THEN x
             ELSE IF 2 * r < Float32Step THEN x - r
             ELSE x + (Float32Step - r)
    IN  IF n > MaxFloat32 THEN Inf
        ELSE IF n < -MaxFloat32 THEN -Inf
        ELSE n

\* strconv.ParseFloat(s, 32): the nearest float32 value, or an error when
\* the value is out of the float32 range.
ParseFloat32(x) ==
    LET n == float32(x)
    IN  [ok |-> n # Inf /\ n # -Inf, value |-> n]

(***************************************************************************)
(* Headers of the header-driven run.  A header carries an id, at most one  *)
(* "key=value" quality annotation and at most one "size=n" annotation.     *)
(***************************************************************************)
Header(id, key, value, hasSize, size) ==
    [id |-> id, key |-> key, value |-> value, hasSize |-> hasSize,
     size |-> size]

parseHeaderInfo(header, m) ==
    LET found == header.key = m
        q == ParseFloat32(header.value)
        hasQual == found /\ q.ok
    IN  [id |-> header.id,
         quality |-> IF hasQual THEN q.value ELSE 0,
         size |-> IF header.hasSize THEN header.size ELSE 0,
         hasQual |-> hasQual,
         hasSize |-> header.hasSize]

(***************************************************************************)
(* runPresort (headersort command)                                         *)
(***************************************************************************)
MaxFile == 2        \* longest input file, in records
bufferSize == 2     \* chunks the channel buffers
chunkSize == 1      \* records per chunk

PresortIds == {seq1, seq2}
HeaderValues == {3, 6, 9}

\* The headers an input of a run for metric m is made of: annotated with m,
\* or with no quality annotation at all.
PresortHeaders(m) ==
    {Header(i, m, v, FALSE, 0) : i \in PresortIds, v \in HeaderValues}
        \cup {Header(i, "", 0, FALSE, 0) : i \in PresortIds}
        \cup {Header(seq1, m, 3, TRUE, 1), Header(seq2, m, 3, TRUE, 2)}

SeqsUpTo(S, n) == UNION {[1..k -> S] : k \in 0..n}

\* --minqual / --maxqual: the defaults, bounds that are float32 values, and
\* bounds that are not.
QualBounds == {<<-MaxFloat64, MaxFloat64>>, <<3, 6>>, <<4, 5>>}

PresortInit ==
    /\ engine = "hs"
    /\ metric \in Metrics
    /\ ascending \in BOOLEAN
    /\ \E b \in QualBounds : minQual = b[1] /\ maxQual = b[2]
    /\ file \in SeqsUpTo(PresortHeaders(metric), MaxFile)
    /\ input = <<>>
    /\ items = <<>>
    /\ ids = <<>>
    /\ pc = "recv"
    /\ lessM = <<>>
    /\ rpos = 1
    /\ ch = <<>>
    /\ chClosed = FALSE
    /\ records = <<>>
    /\ idx = 1
    /\ out = <<>>
    /\ err = ""
    /\ storage = <<>>
    /\ wpos = 1
    /\ compLevel = 0
    /\ flags = <<>>
    /\ handles = <<>>
    /\ proc = <<>>
    /\ returned = <<>>

Min(a, b) == IF a < b THEN a ELSE b

consumerVars == <<items, ids, pc, records, idx, out, err>>

runParams ==
    <<engine, metric, ascending, input, lessM, minQual, maxQual, file,
      storage, wpos, compLevel, flags, handles, proc, returned>>

\* ChunkChan's goroutine: read up to chunkSize records and send them.
ProducerSendChunk ==
    /\ ~chClosed
    /\ rpos <= Len(file)
    /\ Len(ch) < bufferSize
    /\ LET n == Min(chunkSize, Len(file) - rpos + 1)
       IN  /\ ch' = Append(ch, [Data |-> SubSeq(file, rpos, rpos + n - 1),
                                Err |-> FALSE])
           /\ rpos' = rpos + n
    /\ UNCHANGED <<chClosed, consumerVars, runParams>>

\* ChunkChan's goroutine: a read fails after k records of the chunk; the
\* chunk is sent with the error and the channel is closed.
ProducerReadError ==
    /\ ~chClosed
    /\ Len(ch) < bufferSize
    /\ \E k \in 0..Min(chunkSize - 1, Len(file) - rpos + 1) :
           /\ ch' = Append(ch, [Data |-> SubSeq(file, rpos, rpos + k - 1),
                                Err |-> TRUE])
           /\ rpos' = rpos + k
    /\ chClosed' = TRUE
    /\ UNCHANGED <<consumerVars, runParams>>

\* ChunkChan's goroutine: end of file, the channel is closed.
ProducerClose ==
    /\ ~chClosed
    /\ rpos > Len(file)
    /\ chClosed' = TRUE
    /\ UNCHANGED <<rpos, ch, consumerVars, runParams>>

\* The filter of runPresort, on float32 values.
presortFilter(quality, minQual32, maxQual32) ==
    quality >= minQual32 /\ quality <= maxQual32

\* The consumer's state while it handles a chunk.
PresortState(r, il, sl, n, e) ==
    [records |-> r, ids |-> il, sortIndices |-> sl, idx |-> n, err |-> e]

\* Mutant: a record without the metric is skipped, not an error.
handleRecordSkipMissing(st, record, m, minQual32, maxQual32) ==
    LET h == parseHeaderInfo(record, m)
    IN  IF ~h.hasQual
        THEN st
        ELSE IF presortFilter(h.quality, minQual32, maxQual32)
             THEN PresortState(Append(st.records, record),
                               Append(st.ids, h.id),
                               Append(st.sortIndices,
                                      HeaderSortIndex(st.idx, h.quality,
                                                      h.size, h.hasSize)),
                               st.idx + 1, st.err)
             ELSE st

\* The body of the loop over chunk.Data.
handleRecord(st, record, m, minQual32, maxQual32) ==
    LET h == parseHeaderInfo(record, m)
    IN  IF ~h.hasQual
        THEN [st EXCEPT !.err = "missing metric"]
        ELSE IF presortFilter(h.quality, minQual32, maxQual32)
             THEN PresortState(Append(st.records, record),
                               Append(st.ids, h.id),
                               Append(st.sortIndices,
                                      HeaderSortIndex(st.idx, h.quality,
                                                      h.size, h.hasSize)),
                               st.idx + 1, st.err)
             ELSE st

\* The loop over chunk.Data; it is left when a record has set the error.
RECURSIVE handleChunk(_, _, _, _, _, _)
handleChunk(st, data, k, m, minQual32, maxQual32) ==
    IF k > Len(data) \/ st.err # ""
    THEN st
    ELSE handleChunk(handleRecord(st, data[k], m, minQual32, maxQual32),
                     data, k + 1, m, minQual32, maxQual32)

\* The same iteration, receiving the chunk that was sent last.
ConsumeChunkNewest ==
    /\ pc = "recv"
    /\ ch # <<>>
    /\ ch' = SubSeq(ch, 1, Len(ch) - 1)
    /\ IF ch[Len(ch)].Err
       THEN /\ err' = "read"
            /\ pc' = "error"
            /\ UNCHANGED <<items, ids, records, idx>>
       ELSE LET st == handleChunk(PresortState(records, ids, items, idx, ""),
                                  ch[Len(ch)].Data, 1, metric,
                                  float32(minQual), float32(maxQual))
            IN  /\ records' = st.records
                /\ ids' = st.ids
                /\ items' = st.sortIndices
                /\ idx' = st.idx
                /\ err' = st.err
                /\ pc' = IF st.err # "" THEN "error" ELSE "recv"
    /\ UNCHANGED <<out, rpos, chClosed, runParams>>

\* One iteration of the loop over the channel.
ConsumeChunk ==
    /\ pc = "recv"
    /\ ch # <<>>
    /\ ch' = Tail(ch)
    /\ IF Head(ch).Err
       THEN /\ err' = "read"
            /\ pc' = "error"
            /\ UNCHANGED <<items, ids, records, idx>>
       ELSE LET st == handleChunk(PresortState(records, ids, items, idx, ""),
                                  Head(ch).Data, 1, metric,
                                  float32(minQual), float32(maxQual))
            IN  /\ records' = st.records
                /\ ids' = st.ids
                /\ items' = st.sortIndices
                /\ idx' = st.idx
                /\ err' = st.err
                /\ pc' = IF st.err # "" THEN "error" ELSE "recv"
    /\ UNCHANGED <<out, rpos, chClosed, runParams>>

\* The records written for a sorted list, in its order.
writeSorted(sorted, recs) == [k \in 1..Len(sorted) |-> recs[sorted[k].Index]]

\* The channel is closed and drained: sort, write every record, return nil.
SortAndWrite ==
    /\ pc = "recv"
    /\ ch = <<>>
    /\ chClosed
    /\ LET sorted == SortHeaderSortIndexList(items, ids, ascending, metric)
       IN  /\ items' = sorted
           /\ out' = writeSorted(sorted, records)
    /\ pc' = "done"
    /\ UNCHANGED <<ids, records, idx, err, rpos, ch, chClosed, runParams>>

PresortNext ==
    \/ ProducerSendChunk
    \/ ProducerReadError
    \/ ProducerClose
    \/ ConsumeChunk
    \/ SortAndWrite

SpecPresort == PresortInit /\ [][PresortNext]_vars

(***************************************************************************)
(* runPresort with scheduling.  The goroutine of ChunkChan and the loop of *)
(* runPresort are both scheduled whenever they can take a step; a read     *)
(* failure is the environment's choice.  The inputs are longer than the    *)
(* channel, with one metric and the default bounds.                        *)
(***************************************************************************)
MaxLiveFile == 5    \* longest input of a scheduled run, in records

\* A header with the metric and a header without it.
LiveHeaders ==
    {Header(seq1, MaxEE, 3, FALSE, 0), Header(seq2, "", 0, FALSE, 0)}

PresortLiveInit ==
    /\ engine = "hs"
    /\ metric = MaxEE
    /\ ascending \in BOOLEAN
    /\ minQual = -MaxFloat64
    /\ maxQual = MaxFloat64
    /\ file \in SeqsUpTo(LiveHeaders, MaxLiveFile)
    /\ input = <<>>
    /\ items = <<>>
    /\ ids = <<>>
    /\ pc = "recv"
    /\ lessM = <<>>
    /\ rpos = 1
    /\ ch = <<>>
    /\ chClosed = FALSE
    /\ records = <<>>
    /\ idx = 1
    /\ out = <<>>
    /\ err = ""
    /\ storage = <<>>
    /\ wpos = 1
    /\ compLevel = 0
    /\ flags = <<>>
    /\ handles = <<>>
    /\ proc = <<>>
    /\ returned = <<>>

SpecPresortLive ==
    /\ PresortLiveInit
    /\ [][PresortNext]_vars
    /\ WF_vars(ProducerSendChunk)
    /\ WF_vars(ProducerClose)
    /\ WF_vars(ConsumeChunk)
    /\ WF_vars(SortAndWrite)

(***************************************************************************)
(* Quality metrics (qualitymetrics.go).  A metric value is a float64 of    *)
(* the grid; one unit is Scale grid points.                                *)
(***************************************************************************)
PHRED_OFFSET == 33
DEFAULT_MIN_PHRED == 15
Scale == 100

\* Quality bytes of the inputs: '+' is Phred 10, '5' is Phred 20.
QualBytes == {43, 53}

\* Division of two non-negative float64 values, rounded to the grid.
FDiv(a, b) == (2 * a + b) \div (2 * b)

\* errorProbs[q] = 10^(-(q - PHRED_OFFSET)/10).  From Phred 24 on the
\* probability is below half a grid point.
errorProbs(q) ==
    CASE q - PHRED_OFFSET = 0 -> Scale
      [] q - PHRED_OFFSET = 10 -> Scale \div 10
      [] q - PHRED_OFFSET = 20 -> Scale \div 100
      [] q - PHRED_OFFSET >= 24 -> 0

RECURSIVE sumErrorProbs(_)
sumErrorProbs(qual) ==
    IF qual = <<>> THEN 0
    ELSE errorProbs(Head(qual)) + sumErrorProbs(Tail(qual))

\* 1000 * log10(k) for k = 1..10, rounded.
Log10Milli == <<0, 301, 477, 602, 699, 778, 845, 903, 954, 1000>>

\* -10 * math.Log10(p) for a probability p of the grid.
RECURSIVE MinusTenLog10(_)
MinusTenLog10(p) ==
    IF p <= 10
    THEN 20 * Scale - Log10Milli[p]
    ELSE MinusTenLog10(FDiv(p, 10)) - 10 * Scale

calculateAvgPhred(qual) ==
    IF Len(qual) = 0 THEN 0
    ELSE MinusTenLog10(FDiv(sumErrorProbs(qual), Len(qual)))

\* Mutant: no special case for an empty quality string.
calculateMaxEENoGuard(qual) == sumErrorProbs(qual)

calculateMaxEE(qual) ==
    IF Len(qual) = 0 THEN Inf ELSE sumErrorProbs(qual)

calculateMeep(qual) ==
    IF Len(qual) = 0 THEN Inf
    ELSE FDiv(sumErrorProbs(qual) * 100, Len(qual))

\* Mutant: a base whose Phred value equals minPhred is counted too.
RECURSIVE lowQualityCountInclusive(_, _)
lowQualityCountInclusive(qual, minPhred) ==
    IF qual = <<>> THEN 0
    ELSE (IF Head(qual) - PHRED_OFFSET <= minPhred THEN 1 ELSE 0)
             + lowQualityCountInclusive(Tail(qual), minPhred)

\* Number of bases q with int(q) - PHRED_OFFSET < minPhred.
RECURSIVE lowQualityCount(_, _)
lowQualityCount(qual, minPhred) ==
    IF qual = <<>> THEN 0
    ELSE (IF Head(qual) - PHRED_OFFSET < minPhred THEN 1 ELSE 0)
             + lowQualityCount(Tail(qual), minPhred)

countLowQualityBases(qual, minPhred) ==
    IF Len(qual) = 0 THEN Inf
    ELSE lowQualityCount(qual, minPhred) * Scale

calculateLQPercent(qual, minPhred) ==
    IF Len(qual) = 0 THEN Inf
    ELSE FDiv(lowQualityCount(qual, minPhred) * Scale * 100, Len(qual))

calculateQuality(record, m, minPhred) ==
    CASE m = AvgPhred -> calculateAvgPhred(record.Qual)
      [] m = MaxEE -> calculateMaxEE(record.Qual)
      [] m = Meep -> calculateMeep(record.Qual)
      [] m = LQCount -> countLowQualityBases(record.Qual, minPhred)
      [] m = LQPercent -> calculateLQPercent(record.Qual, minPhred)
      [] OTHER -> 0

(***************************************************************************)
(* QualityIndexList: the index-based list the sort command sorts.  Entries *)
(* refer to names by Index and carry no size.                              *)
(***************************************************************************)
QualityIndex(index, value) == [Index |-> index, Value |-> value]

QualityIndexListLess(list, names, asc, m, i, j) ==
    LET vi == list[i].Value
        vj == list[j].Value
    IN  IF vi # vj
        THEN LET best == IF LowerIsBetter(m) THEN vi < vj ELSE vi > vj
             IN  IF asc THEN ~best ELSE best
        ELSE NaturalLess(names[list[i].Index], names[list[j].Index])

RECURSIVE QIInner(_, _, _, _, _)
QIInner(list, names, asc, m, j) ==
    IF j > 1 /\ QualityIndexListLess(list, names, asc, m, j, j - 1)
    THEN QIInner(Swap(list, j, j - 1), names, asc, m, j - 1)
    ELSE list

RECURSIVE QIOuter(_, _, _, _, _)
QIOuter(list, names, asc, m, i) ==
    IF i > Len(list) THEN list
    ELSE QIOuter(QIInner(list, names, asc, m, i), names, asc, m, i + 1)

\* Mutant: the insertion sort starts one element too late.
SortQualityIndexListLate(list, names, asc, m) ==
    QIOuter(list, names, asc, m, 3)

SortQualityIndexList(list, names, asc, m) == QIOuter(list, names, asc, m, 2)

(***************************************************************************)
(* The codec.  EncodeAll writes the frame magic and the runs of the input  *)
(* as (length, byte) pairs; DecodeAll checks the magic and expands the     *)
(* runs.                                                                   *)
(***************************************************************************)
FrameMagic == <<40, 181, 47, 253>>

RECURSIVE RunLength(_)
RunLength(s) ==
    IF Len(s) >= 2 /\ s[2] = s[1] THEN 1 + RunLength(Tail(s)) ELSE 1

RECURSIVE EncodeRuns(_)
EncodeRuns(s) ==
    IF s = <<>> THEN <<>>
    ELSE LET n == RunLength(s)
         IN  <<n, Head(s)>> \o EncodeRuns(Drop(s, n))

EncodeAll(src) == FrameMagic \o EncodeRuns(src)

Repeat(b, n) == [k \in 1..n |-> b]

RECURSIVE DecodeRuns(_)
DecodeRuns(c) ==
    IF Len(c) < 2 THEN <<>>
    ELSE Repeat(c[2], c[1]) \o DecodeRuns(Drop(c, 2))

DecodeAll(c) ==
    IF Len(c) >= Len(FrameMagic) /\ SubSeq(c, 1, Len(FrameMagic)) = FrameMagic
          /\ (Len(c) - Len(FrameMagic)) % 2 = 0
    THEN [ok |-> TRUE, bytes |-> DecodeRuns(Drop(c, Len(FrameMagic)))]
    ELSE [ok |-> FALSE, bytes |-> <<>>]

(***************************************************************************)
(* CompactStorage (command_sort.go).  Offsets are byte offsets from 0;     *)
(* record indices are 1-based here.                                        *)
(***************************************************************************)
\* The number of uint32 values.  It stands for 2^32, which is beyond the
\* integers TLC represents; no arena of the model comes near either value.
Uint32Range == 1073741824

uint32(n) == n % Uint32Range

NewCompactStorage == [data |-> <<>>, offsets |-> <<>>, lengths |-> <<>>]

\* Append that puts the new record in front of the stored ones.
CompactStorageAppendFront(s, compressed) ==
    [data |-> compressed \o s.data,
     offsets |-> Append(s.offsets, uint32(0)),
     lengths |-> Append(s.lengths, uint32(Len(compressed)))]

\* Append with the offset taken after the data has grown.
CompactStorageAppendOffsetAfter(s, compressed) ==
    [data |-> s.data \o compressed,
     offsets |-> Append(s.offsets, uint32(Len(s.data \o compressed))),
     lengths |-> Append(s.lengths, uint32(Len(compressed)))]

CompactStorageAppend(s, compressed) ==
    [data |-> s.data \o compressed,
     offsets |-> Append(s.offsets, uint32(Len(s.data))),
     lengths |-> Append(s.lengths, uint32(Len(compressed)))]

CompactStorageGet(s, i) ==
    SubSeq(s.data, s.offsets[i] + 1, s.offsets[i] + s.lengths[i])

(***************************************************************************)
(* parseHeaderMetrics (--header).  Flag values are byte strings.           *)
(***************************************************************************)
avgphredBytes == <<97, 118, 103, 112, 104, 114, 101, 100>>      \* "avgphred"
maxeeBytes == <<109, 97, 120, 101, 101>>                        \* "maxee"
meepBytes == <<109, 101, 101, 112>>                             \* "meep"
lqcountBytes == <<108, 113, 99, 111, 117, 110, 116>>            \* "lqcount"
lqpercentBytes == <<108, 113, 112, 101, 114, 99, 101, 110, 116>> \* "lqpercent"
lengthBytes == <<108, 101, 110, 103, 116, 104>>                 \* "length"
invalidBytes == <<105, 110, 118, 97, 108, 105, 100>>            \* "invalid"

\* White space as strings.TrimSpace sees it in ASCII text.
IsSpace(c) == c \in {9, 10, 11, 12, 13, 32}

\* Index of the first byte b of s, or 0.
RECURSIVE IndexByte(_, _)
IndexByte(s, b) ==
    IF s = <<>> THEN 0
    ELSE IF Head(s) = b THEN 1
    ELSE LET k == IndexByte(Tail(s), b) IN IF k = 0 THEN 0 ELSE k + 1

\* strings.Split(s, ",").
RECURSIVE SplitComma(_)
SplitComma(s) ==
    LET k == IndexByte(s, 44)
    IN  IF k = 0 THEN <<s>>
        ELSE <<SubSeq(s, 1, k - 1)>> \o SplitComma(Drop(s, k))

RECURSIVE TrimLeft(_)
TrimLeft(s) ==
    IF s # <<>> /\ IsSpace(Head(s)) THEN TrimLeft(Tail(s)) ELSE s

RECURSIVE TrimRight(_)
TrimRight(s) ==
    IF s # <<>> /\ IsSpace(s[Len(s)])
    THEN TrimRight(SubSeq(s, 1, Len(s) - 1))
    ELSE s

\* strings.TrimSpace.
TrimSpace(s) == TrimRight(TrimLeft(s))

HeaderMetric(name, isLength) == [Name |-> name, IsLength |-> isLength]

\* Mutant: a token that names no metric is skipped.
headerMetricPartSkipInvalid(acc, part) ==
    LET p == TrimSpace(part)
    IN  IF acc.err \/ p = <<>>
        THEN acc
        ELSE IF p = lengthBytes
        THEN [acc EXCEPT !.list = Append(@, HeaderMetric(p, TRUE))]
        ELSE IF p \in {avgphredBytes, maxeeBytes, meepBytes, lqcountBytes,
                       lqpercentBytes}
        THEN [acc EXCEPT !.list = Append(@, HeaderMetric(p, FALSE))]
        ELSE acc

\* The body of the loop over the parts; acc is the result so far, and the
\* loop is over once an error has been returned.
headerMetricPart(acc, part) ==
    LET p == TrimSpace(part)
    IN  IF acc.err \/ p = <<>>
        THEN acc
        ELSE IF p = lengthBytes
        THEN [acc EXCEPT !.list = Append(@, HeaderMetric(p, TRUE))]
        ELSE IF p \in {avgphredBytes, maxeeBytes, meepBytes, lqcountBytes,
                       lqpercentBytes}
        THEN [acc EXCEPT !.list = Append(@, HeaderMetric(p, FALSE))]
        ELSE [list |-> <<>>, err |-> TRUE]

RECURSIVE headerMetricParts(_, _)
headerMetricParts(acc, parts) ==
    IF parts = <<>> THEN acc
    ELSE headerMetricParts(headerMetricPart(acc, Head(parts)), Tail(parts))

parseHeaderMetrics(metrics) ==
    IF metrics = <<>>
    THEN [list |-> <<>>, err |-> FALSE]
    ELSE headerMetricParts([list |-> <<>>, err |-> FALSE], SplitComma(metrics))

(***************************************************************************)
(* writeRecord: the filter, the header annotation and the write.           *)
(***************************************************************************)
\* Mutant: the bounds are exclusive.
writeRecordExclusive(quality, minQualFilter, maxQualFilter) ==
    ~(quality <= minQualFilter \/ quality >= maxQualFilter)

\* The filter of writeRecord: whether a record of this quality is written.
writeRecord(quality, minQualFilter, maxQualFilter) ==
    ~(quality < minQualFilter \/ quality > maxQualFilter)

\* Decimal digits of a natural number (%d).
RECURSIVE Digits(_)
Digits(n) ==
    IF n < 10 THEN <<48 + n>> ELSE Digits(n \div 10) \o <<48 + (n % 10)>>

\* fmt.Sprintf("%.6f", v): a grid value has two decimals, the other four
\* printed decimals are zeros; the infinities print as +Inf and -Inf.
FormatFloat6(v) ==
    IF v >= Inf THEN <<43, 73, 110, 102>>
    ELSE IF v <= -Inf THEN <<45, 73, 110, 102>>
    ELSE LET a == IF v < 0 THEN -v ELSE v
         IN  (IF v < 0 THEN <<45>> ELSE <<>>)
                 \o Digits(a \div Scale) \o <<46>>
                 \o <<48 + ((a % Scale) \div 10), 48 + (a % 10)>>
                 \o <<48, 48, 48, 48>>

\* The switch over hm.Name.
headerMetricValue(name, qual, minPhred) ==
    CASE name = avgphredBytes -> calculateAvgPhred(qual)
      [] name = maxeeBytes -> calculateMaxEE(qual)
      [] name = meepBytes -> calculateMeep(qual)
      [] name = lqcountBytes -> countLowQualityBases(qual, minPhred)
      [] name = lqpercentBytes -> calculateLQPercent(qual, minPhred)
      [] OTHER -> 0

\* One element of additions.
headerAddition(hm, record, minPhred) ==
    IF hm.IsLength
    THEN lengthBytes \o <<61>> \o Digits(Len(record.Seq))
    ELSE hm.Name \o <<61>>
             \o FormatFloat6(headerMetricValue(hm.Name, record.Qual, minPhred))

\* " " + strings.Join(additions, " ").
RECURSIVE joinAdditions(_, _, _)
joinAdditions(headerMetrics, record, minPhred) ==
    IF headerMetrics = <<>> THEN <<>>
    ELSE <<32>> \o headerAddition(Head(headerMetrics), record, minPhred)
             \o joinAdditions(Tail(headerMetrics), record, minPhred)

\* The record with the annotations appended to its name.
annotateRecord(record, headerMetrics, minPhred) ==
    [record EXCEPT
        !.Name = @ \o joinAdditions(headerMetrics, record, minPhred)]

\* The same call with the header annotated before the filter is applied.
writeRecordAnnotateFirst(record, quality, headerMetrics, minPhred, minQualFilter, maxQualFilter) ==
    LET annotated == annotateRecord(record, headerMetrics, minPhred)
    IN  IF ~writeRecord(quality, minQualFilter, maxQualFilter)
        THEN [written |-> FALSE, record |-> annotated, output |-> <<>>]
        ELSE [written |-> TRUE, record |-> annotated, output |-> <<annotated>>]

\* A call of writeRecord: what it returns, the record after the call, and
\* the records it has written to the output.
writeRecordEffect(record, quality, headerMetrics, minPhred, minQualFilter, maxQualFilter) ==
    IF ~writeRecord(quality, minQualFilter, maxQualFilter)
    THEN [written |-> FALSE, record |-> record, output |-> <<>>]
    ELSE LET annotated == annotateRecord(record, headerMetrics, minPhred)
         IN  [written |-> TRUE, record |-> annotated, output |-> <<annotated>>]

(***************************************************************************)
(* sortRecords (sort command): sortCompressed when compLevel > 0,          *)
(* sortUncompressed otherwise.                                             *)
(***************************************************************************)
MaxSortFile == 3    \* longest input of a sort run, in records

\* The handles of a run: the input reader, the output writer, and the
\* encoder and decoder of sortCompressed.  A handle is "none" until it is
\* opened; flushed tells whether the writer's buffer has reached the file.
NoHandles ==
    [reader |-> "none", writer |-> "none", encoder |-> "none",
     decoder |-> "none", flushed |-> FALSE]

\* The handles once sortRecords has opened what the strategy needs.
OpenedHandles(level) ==
    [reader |-> "open", writer |-> "open",
     encoder |-> IF level > 0 THEN "open" ELSE "none",
     decoder |-> IF level > 0 THEN "open" ELSE "none",
     flushed |-> FALSE]

closed(h) == IF h = "open" THEN "closed" ELSE h

\* The deferred Close calls of sortCompressed and sortRecords.
closeAll(h) ==
    [reader |-> closed(h.reader), writer |-> closed(h.writer),
     encoder |-> closed(h.encoder), decoder |-> closed(h.decoder),
     flushed |-> h.writer = "open" \/ h.flushed]

Running == [exited |-> FALSE, code |-> 0]

\* exitFunc is os.Exit: the process ends at once with the code; no deferred
\* call runs.
exitFunc(code) == [exited |-> TRUE, code |-> code]

\* The flags of a run that starts in sortRecords.
NoFlags == [metric |-> <<>>, headerMetrics |-> <<>>, version |-> FALSE]

Record(name, sq, qual) == [Name |-> name, Seq |-> sq, Qual |-> qual]

\* FASTQ records, and a FASTA record, which has no quality.
SortRecords ==
    {Record(n, <<65>>, <<43>>) : n \in {seq1, seq2}}
        \cup {Record(n, <<65, 65>>, <<53, 43>>) : n \in {seq1, seq2}}
        \cup {Record(seq1, <<65, 67>>, <<>>)}

SortBounds == {<<-MaxFloat64, MaxFloat64>>, <<10, 1000>>}

SortInit ==
    /\ engine = "qi"
    /\ metric \in Metrics
    /\ ascending \in BOOLEAN
    /\ compLevel \in {0, 1}
    /\ \E b \in SortBounds : minQual = b[1] /\ maxQual = b[2]
    /\ file \in SeqsUpTo(SortRecords, MaxSortFile)
    /\ input = <<>>
    /\ items = <<>>
    /\ ids = <<>>
    /\ pc = "read"
    /\ lessM = <<>>
    /\ rpos = 1
    /\ ch = <<>>
    /\ chClosed = FALSE
    /\ records = <<>>
    /\ idx = 1
    /\ out = <<>>
    /\ err = ""
    /\ storage = NewCompactStorage
    /\ wpos = 1
    /\ flags = NoFlags
    /\ handles = OpenedHandles(compLevel)
    /\ proc = Running
    /\ returned = <<>>

sortParams ==
    <<engine, metric, ascending, compLevel, minQual, maxQual, file, input,
      lessM, ch, chClosed, flags, returned>>

\* The read loop of a streaming run: the record is also written at once.
ReadRecordStreaming ==
    /\ pc = "read"
    /\ rpos <= Len(file)
    /\ LET record == file[rpos]
           avgQual == calculateQuality(record, metric, DEFAULT_MIN_PHRED)
       IN  /\ IF compLevel > 0
              THEN /\ storage' = CompactStorageAppend(
                                     storage, EncodeAll(record.Seq \o record.Qual))
                   /\ UNCHANGED records
              ELSE /\ records' = Append(records, record)
                   /\ UNCHANGED storage
           /\ ids' = Append(ids, record.Name)
           /\ items' = Append(items, QualityIndex(idx, float32(avgQual)))
           /\ out' = IF avgQual >= minQual /\ avgQual <= maxQual
                      THEN Append(out, record) ELSE out
    /\ idx' = idx + 1
    /\ rpos' = rpos + 1
    /\ UNCHANGED <<pc, wpos, err, handles, proc, sortParams>>

\* One iteration of the read loop: score the record, store it, index it.
ReadRecord ==
    /\ pc = "read"
    /\ rpos <= Len(file)
    /\ LET record == file[rpos]
           avgQual == calculateQuality(record, metric, DEFAULT_MIN_PHRED)
       IN  /\ IF compLevel > 0
              THEN /\ storage' = CompactStorageAppend(
                                     storage, EncodeAll(record.Seq \o record.Qual))
                   /\ UNCHANGED records
              ELSE /\ records' = Append(records, record)
                   /\ UNCHANGED storage
           /\ ids' = Append(ids, record.Name)
           /\ items' = Append(items, QualityIndex(idx, float32(avgQual)))
    /\ idx' = idx + 1
    /\ rpos' = rpos + 1
    /\ UNCHANGED <<pc, wpos, out, err, handles, proc, sortParams>>

\* reader.Read fails with an error other than EOF: exitFunc(1).
ReadError ==
    /\ pc = "read"
    /\ err' = "read"
    /\ pc' = "exit"
    /\ proc' = exitFunc(1)
    /\ UNCHANGED <<rpos, items, ids, records, storage, idx, wpos, out, handles,
                   sortParams>>

\* End of input: sort the index list.
SortIndexList ==
    /\ pc = "read"
    /\ rpos > Len(file)
    /\ items' = SortQualityIndexList(items, ids, ascending, metric)
    /\ pc' = "write"
    /\ wpos' = 1
    /\ UNCHANGED <<rpos, ids, records, storage, idx, out, err, handles, proc,
                   sortParams>>

\* The record sortCompressed rebuilds from the decompressed bytes.
splitRecord(name, decompressed) ==
    LET seqLen == Len(decompressed) \div 2
    IN  Record(name, SubSeq(decompressed, 1, seqLen),
               Drop(decompressed, seqLen))

\* The position of the first name equal to names[i].
FirstNamed(names, i) ==
    CHOOSE k \in 1..i : names[k] = names[i] /\ \A j \in 1..(k - 1) : names[j] # names[i]

\* The record for entry qi when the stores are looked up by name.
storedRecordByName(qi, level, store, recs, names) ==
    LET k == FirstNamed(names, qi.Index)
    IN  IF level > 0
        THEN splitRecord(names[k], DecodeAll(CompactStorageGet(store, k)).bytes)
        ELSE recs[k]

\* The record the write loop hands to writeRecord for entry qi.
storedRecord(qi, level, store, recs, names) ==
    IF level > 0
    THEN splitRecord(names[qi.Index],
                     DecodeAll(CompactStorageGet(store, qi.Index)).bytes)
    ELSE recs[qi.Index]

\* One iteration of the write loop.
WriteNext ==
    /\ pc = "write"
    /\ wpos <= Len(items)
    /\ LET qi == items[wpos]
       IN  IF compLevel > 0 /\ ~DecodeAll(CompactStorageGet(storage, qi.Index)).ok
           THEN /\ err' = "decompress"
                /\ pc' = "exit"
                /\ proc' = exitFunc(1)
                /\ UNCHANGED <<out, wpos>>
           ELSE /\ out' = out \o writeRecordEffect(
                                     storedRecord(qi, compLevel, storage,
                                                  records, ids),
                                     qi.Value,
                                     parseHeaderMetrics(flags.headerMetrics).list,
                                     DEFAULT_MIN_PHRED, minQual, maxQual).output
                /\ wpos' = wpos + 1
                /\ UNCHANGED <<err, pc, proc>>
    /\ UNCHANGED <<rpos, items, ids, records, storage, idx, handles,
                   sortParams>>

\* The write loop is over: sortCompressed / sortUncompressed and then
\* sortRecords return, their deferred calls run, and the command ends.
SortReturn ==
    /\ pc = "write"
    /\ wpos > Len(items)
    /\ pc' = "done"
    /\ handles' = closeAll(handles)
    /\ proc' = exitFunc(0)
    /\ UNCHANGED <<rpos, items, ids, records, storage, idx, wpos, out, err,
                   sortParams>>

SortNext ==
    \/ ReadRecord
    \/ ReadError
    \/ SortIndexList
    \/ WriteNext
    \/ SortReturn

SpecSort == SortInit /\ [][SortNext]_vars

(***************************************************************************)
(* Functions under study: a call of one function on one input.             *)
(***************************************************************************)
MaxPieces == 3      \* pieces a --header value is made of

HeaderPieces ==
    {<<44>>, <<32>>, avgphredBytes, maxeeBytes, meepBytes, lqcountBytes,
     lqpercentBytes, lengthBytes, <<120>>}

RECURSIVE Concat(_)
Concat(ss) == IF ss = <<>> THEN <<>> ELSE Head(ss) \o Concat(Tail(ss))

HeaderMetricStrings == {Concat(ps) : ps \in SeqsUpTo(HeaderPieces, MaxPieces)}

MaxQualLen == 3     \* longest quality string a metric is computed for

MinPhreds == {10, DEFAULT_MIN_PHRED, 20, 21}

\* The arguments of calculateQuality.
QualityCalls ==
    {[record |-> Record(seq1, [k \in 1..Len(q) |-> 65], q), metric |-> m,
      minPhred |-> p] :
         q \in SeqsUpTo(QualBytes, MaxQualLen), m \in Metrics, p \in MinPhreds}

\* The id parseHeaderInfo returns: the header up to its first space byte
\* (strings.SplitN(header, " ", 2)[0]), without one leading '>' or '@'.
HasPrefix(s, b) == s # <<>> /\ Head(s) = b

\* The same with the id ending at the first ' ' or ';'.
parseHeaderInfoIdAtSeparator(header) ==
    LET a  == IndexByte(header, 32)
        b  == IndexByte(header, 59)
        k  == IF a = 0 THEN b ELSE IF b = 0 THEN a ELSE Min(a, b)
        id == IF k = 0 THEN header ELSE SubSeq(header, 1, k - 1)
    IN  IF HasPrefix(id, 62) \/ HasPrefix(id, 64) THEN Tail(id) ELSE id

parseHeaderInfoId(header) ==
    LET k  == IndexByte(header, 32)
        id == IF k = 0 THEN header ELSE SubSeq(header, 1, k - 1)
    IN  IF HasPrefix(id, 62) \/ HasPrefix(id, 64) THEN Tail(id) ELSE id

MaxAnnotations == 2     \* annotations after the id of a header

HeaderMarkers == {<<>>, <<62>>, <<64>>}           \* none, '>', '@'
HeaderSeparators == {<<32>>, <<59>>, <<9>>}       \* ' ', ';', tab
HeaderAnnotations ==
    {maxeeBytes \o <<61, 50>>, <<115, 105, 122, 101, 61, 51>>}  \* maxee=2, size=3

\* The header lines parseHeaderInfo is called with.
HeaderLines ==
    {mk \o nm \o Concat(an) :
        mk \in HeaderMarkers, nm \in {seq1, seq2},
        an \in SeqsUpTo({sp \o a : sp \in HeaderSeparators,
                                   a \in HeaderAnnotations}, MaxAnnotations)}

\* The arguments of writeRecord: the quality is an argument of its own, as
\* in the callers and the tests, and need not be a score of the record.
WriteQualities == {5 * Scale, 10 * Scale, 15 * Scale, 20 * Scale, 40 * Scale, Inf}

WriteBounds ==
    {<<-MaxFloat64, MaxFloat64>>, <<10 * Scale, 20 * Scale>>, <<20 * Scale, 10 * Scale>>}

WriteHeaderMetrics ==
    {<<>>, <<HeaderMetric(lengthBytes, TRUE)>>,
     <<HeaderMetric(avgphredBytes, FALSE), HeaderMetric(lengthBytes, TRUE)>>,
     <<HeaderMetric(maxeeBytes, FALSE), HeaderMetric(lqcountBytes, FALSE)>>}

WriteRecordCalls ==
    {[record |-> r, quality |-> q, headerMetrics |-> hm,
      minPhred |-> DEFAULT_MIN_PHRED, minQualFilter |-> b[1],
      maxQualFilter |-> b[2]] :
         r \in SortRecords, q \in WriteQualities, hm \in WriteHeaderMetrics,
         b \in WriteBounds}

Functions ==
    {"parseHeaderMetrics", "calculateQuality", "parseHeaderInfo", "writeRecord"}

FnInit ==
    /\ engine \in Functions
    /\ metric = AvgPhred
    /\ ascending = FALSE
    /\ CASE engine = "parseHeaderMetrics" -> input \in HeaderMetricStrings
         [] engine = "calculateQuality" -> input \in QualityCalls
         [] engine = "parseHeaderInfo" -> input \in HeaderLines
         [] engine = "writeRecord" -> input \in WriteRecordCalls
    /\ items = <<>>
    /\ ids = <<>>
    /\ pc = "call"
    /\ lessM = <<>>
    /\ NoRun

fnFrame ==
    <<engine, metric, ascending, input, items, ids, lessM, minQual, maxQual,
      file, rpos, ch, chClosed, records, idx, out, err, storage, wpos,
      compLevel, flags, handles, proc>>

CallParseHeaderMetrics ==
    /\ pc = "call"
    /\ engine = "parseHeaderMetrics"
    /\ returned' = parseHeaderMetrics(input)
    /\ pc' = "returned"
    /\ UNCHANGED fnFrame

CallCalculateQuality ==
    /\ pc = "call"
    /\ engine = "calculateQuality"
    /\ returned' = calculateQuality(input.record, input.metric, input.minPhred)
    /\ pc' = "returned"
    /\ UNCHANGED fnFrame

CallParseHeaderInfo ==
    /\ pc = "call"
    /\ engine = "parseHeaderInfo"
    /\ returned' = parseHeaderInfoId(input)
    /\ pc' = "returned"
    /\ UNCHANGED fnFrame

CallWriteRecord ==
    /\ pc = "call"
    /\ engine = "writeRecord"
    /\ returned' = writeRecordEffect(input.record, input.quality,
                                     input.headerMetrics, input.minPhred,
                                     input.minQualFilter, input.maxQualFilter)
    /\ pc' = "returned"
    /\ UNCHANGED fnFrame

FnNext ==
    \/ CallParseHeaderMetrics
    \/ CallCalculateQuality
    \/ CallParseHeaderInfo
    \/ CallWriteRecord

SpecFn == FnInit /\ [][FnNext]_vars

(***************************************************************************)
(* runDefaultCommand (sort command): flag validation, then sortRecords.    *)
(***************************************************************************)
MaxCommandFile == 1     \* longest input of a command run, in records

\* Mutant: every --metric value is accepted.
validateMetricAcceptAll(name) ==
    [ok |-> TRUE, metric |-> IF name \in Metrics THEN name ELSE AvgPhred]

\* The metric names a --metric value is checked against.
validateMetric(name) ==
    IF name \in Metrics
    THEN [ok |-> TRUE, metric |-> name]
    ELSE [ok |-> FALSE, metric |-> AvgPhred]

MetricFlags == Metrics \cup {"invalid"}

HeaderFlags ==
    {<<>>, maxeeBytes \o <<44>> \o lengthBytes,
     maxeeBytes \o <<44>> \o invalidBytes}

CompLevelFlags == {-1, 0, 1, 22, 23}

CommandInit ==
    /\ engine = "qi"
    /\ metric = AvgPhred
    /\ ascending \in BOOLEAN
    /\ compLevel \in CompLevelFlags
    /\ flags \in [metric : MetricFlags, headerMetrics : HeaderFlags,
                  version : BOOLEAN]
    /\ minQual = -MaxFloat64
    /\ maxQual = MaxFloat64
    /\ file \in SeqsUpTo(SortRecords, MaxCommandFile)
    /\ input = <<>>
    /\ items = <<>>
    /\ ids = <<>>
    /\ pc = "config"
    /\ lessM = <<>>
    /\ rpos = 1
    /\ ch = <<>>
    /\ chClosed = FALSE
    /\ records = <<>>
    /\ idx = 1
    /\ out = <<>>
    /\ err = ""
    /\ storage = NewCompactStorage
    /\ wpos = 1
    /\ handles = NoHandles
    /\ proc = Running
    /\ returned = <<>>

commandFrame ==
    <<engine, ascending, compLevel, minQual, maxQual, file, input, items, ids,
      lessM, rpos, ch, chClosed, records, idx, out, storage, wpos, returned>>

\* runDefaultCommand up to the call of sortRecords.
ValidateFlags ==
    /\ pc = "config"
    /\ LET m == validateMetric(flags.metric)
           hm == parseHeaderMetrics(flags.headerMetrics)
       IN  IF flags.version
           THEN /\ proc' = exitFunc(0)
                /\ pc' = "exit"
                /\ UNCHANGED <<metric, err>>
           ELSE IF ~m.ok
           THEN /\ proc' = exitFunc(1)
                /\ pc' = "exit"
                /\ err' = "metric"
                /\ UNCHANGED metric
           ELSE IF compLevel < 0 \/ compLevel > 22
           THEN /\ proc' = exitFunc(1)
                /\ pc' = "exit"
                /\ err' = "compress"
                /\ metric' = m.metric
           ELSE IF hm.err
           THEN /\ proc' = exitFunc(1)
                /\ pc' = "exit"
                /\ err' = "header"
                /\ metric' = m.metric
           ELSE /\ metric' = m.metric
                /\ pc' = "open"
                /\ UNCHANGED <<proc, err>>
    /\ UNCHANGED <<flags, handles, commandFrame>>

\* sortRecords: open the reader, then the writer; a failure is fatal.
OpenFiles ==
    /\ pc = "open"
    /\ \E outcome \in {"ok", "reader", "writer"} :
           CASE outcome = "reader" ->
                    /\ proc' = exitFunc(1)
                    /\ pc' = "exit"
                    /\ err' = "reader"
                    /\ UNCHANGED handles
             [] outcome = "writer" ->
                    /\ handles' = [handles EXCEPT !.reader = "open"]
                    /\ proc' = exitFunc(1)
                    /\ pc' = "exit"
                    /\ err' = "writer"
             [] outcome = "ok" ->
                    /\ handles' = [handles EXCEPT !.reader = "open",
                                                  !.writer = "open"]
                    /\ pc' = IF compLevel > 0 THEN "codec" ELSE "read"
                    /\ UNCHANGED <<proc, err>>
    /\ UNCHANGED <<metric, flags, commandFrame>>

\* sortCompressed: create the encoder, then the decoder; a failure is fatal.
OpenCodec ==
    /\ pc = "codec"
    /\ \E outcome \in {"ok", "encoder", "decoder"} :
           CASE outcome = "encoder" ->
                    /\ proc' = exitFunc(1)
                    /\ pc' = "exit"
                    /\ err' = "encoder"
                    /\ UNCHANGED handles
             [] outcome = "decoder" ->
                    /\ handles' = [handles EXCEPT !.encoder = "open"]
                    /\ proc' = exitFunc(1)
                    /\ pc' = "exit"
                    /\ err' = "decoder"
             [] outcome = "ok" ->
                    /\ handles' = [handles EXCEPT !.encoder = "open",
                                                  !.decoder = "open"]
                    /\ pc' = "read"
                    /\ UNCHANGED <<proc, err>>
    /\ UNCHANGED <<metric, flags, commandFrame>>

CommandNext ==
    \/ ValidateFlags
    \/ OpenFiles
    \/ OpenCodec
    \/ ReadRecord
    \/ ReadError
    \/ SortIndexList
    \/ WriteNext
    \/ SortReturn

SpecCommand == CommandInit /\ [][CommandNext]_vars

(***************************************************************************)
(* runNoSort (nosort command): score, filter and write in input order.     *)
(***************************************************************************)
NoSortInit ==
    /\ engine = "nosort"
    /\ metric \in Metrics
    /\ ascending = FALSE
    /\ compLevel = 0
    /\ \E b \in SortBounds : minQual = b[1] /\ maxQual = b[2]
    /\ file \in SeqsUpTo(SortRecords, MaxSortFile)
    /\ input = <<>>
    /\ items = <<>>
    /\ ids = <<>>
    /\ pc = "read"
    /\ lessM = <<>>
    /\ rpos = 1
    /\ ch = <<>>
    /\ chClosed = FALSE
    /\ records = <<>>
    /\ idx = 1
    /\ out = <<>>
    /\ err = ""
    /\ storage = NewCompactStorage
    /\ wpos = 1
    /\ flags = NoFlags
    /\ handles = OpenedHandles(0)
    /\ proc = Running
    /\ returned = <<>>

noSortFrame ==
    <<engine, metric, ascending, compLevel, minQual, maxQual, file, input,
      items, ids, lessM, ch, chClosed, records, idx, storage, wpos, flags,
      proc, returned>>

\* One iteration of the loop: read a record, score it, hand it to
\* writeRecord.
NoSortRecord ==
    /\ pc = "read"
    /\ rpos <= Len(file)
    /\ LET record == file[rpos]
           quality == calculateQuality(record, metric, DEFAULT_MIN_PHRED)
       IN  out' = out \o writeRecordEffect(
                               record, quality,
                               parseHeaderMetrics(flags.headerMetrics).list,
                               DEFAULT_MIN_PHRED, minQual, maxQual).output
    /\ rpos' = rpos + 1
    /\ UNCHANGED <<pc, err, handles, noSortFrame>>

\* reader.Read fails with an error other than EOF: the error is returned,
\* and the deferred Close calls run.
NoSortReadError ==
    /\ pc = "read"
    /\ err' = "read"
    /\ pc' = "error"
    /\ handles' = closeAll(handles)
    /\ UNCHANGED <<rpos, out, noSortFrame>>

\* End of input: return nil; the deferred Close calls run.
NoSortReturn ==
    /\ pc = "read"
    /\ rpos > Len(file)
    /\ pc' = "done"
    /\ handles' = closeAll(handles)
    /\ UNCHANGED <<rpos, out, err, noSortFrame>>

NoSortNext ==
    \/ NoSortRecord
    \/ NoSortReadError
    \/ NoSortReturn

SpecNoSort == NoSortInit /\ [][NoSortNext]_vars

(***************************************************************************)
(* sortStdin and sortFile (phredsort.go): the sort functions that keep the *)
(* records in maps keyed by the record name.  records is the map           *)
(* (sequences in sortStdin, name2offset in sortFile), items the list of    *)
(* QualityFloat entries, storage the records of sortFile's second pass.    *)
(***************************************************************************)
MaxKeyedFile == 2   \* longest input of a name-keyed sort, in records

\* m[k] = v for a Go map.
MapPut(m, k, v) == [x \in DOMAIN m \cup {k} |-> IF x = k THEN v ELSE m[x]]

KeyedInit ==
    /\ engine \in {"sortStdin", "sortFile"}
    /\ metric \in Metrics
    /\ ascending \in BOOLEAN
    /\ compLevel \in (IF engine = "sortStdin" THEN {0, 1} ELSE {0})
    /\ \E b \in SortBounds : minQual = b[1] /\ maxQual = b[2]
    /\ file \in SeqsUpTo(SortRecords, MaxKeyedFile)
    /\ input = <<>>
    /\ items = <<>>
    /\ ids = <<>>
    /\ pc = "read"
    /\ lessM = <<>>
    /\ rpos = 1
    /\ ch = <<>>
    /\ chClosed = FALSE
    /\ records = <<>>
    /\ idx = 1
    /\ out = <<>>
    /\ err = ""
    /\ storage = <<>>
    /\ wpos = 1
    /\ flags = NoFlags
    /\ handles = <<>>
    /\ proc = Running
    /\ returned = <<>>

keyedFrame ==
    <<engine, metric, ascending, compLevel, minQual, maxQual, file, input,
      ids, lessM, ch, chClosed, idx, flags, handles, returned>>

\* One iteration of the (first) read loop.
KeyedRead ==
    /\ pc = "read"
    /\ rpos <= Len(file)
    /\ LET record == file[rpos]
           name == record.Name
           avgQual == calculateQuality(record, metric, DEFAULT_MIN_PHRED)
       IN  /\ records' =
                 MapPut(records, name,
                        IF engine = "sortFile" THEN rpos
                        ELSE IF compLevel > 0
                        THEN [Name |-> name,
                              Data |-> EncodeAll(record.Seq \o record.Qual),
                              AvgQual |-> avgQual]
                        ELSE record)
           /\ items' = Append(items, QualityFloat(name, avgQual, metric))
    /\ rpos' = rpos + 1
    /\ UNCHANGED <<pc, storage, wpos, out, err, proc, keyedFrame>>

\* reader.Read fails with an error other than EOF: exitFunc(1).
KeyedReadError ==
    /\ pc = "read"
    /\ err' = "read"
    /\ pc' = "exit"
    /\ proc' = exitFunc(1)
    /\ UNCHANGED <<rpos, items, records, storage, wpos, out, keyedFrame>>

\* End of input: sort the list.  sortFile goes on to its second pass.
KeyedSort ==
    /\ pc = "read"
    /\ rpos > Len(file)
    /\ items' = SortQualityFloatList(items, ascending)
    /\ pc' = IF engine = "sortFile" THEN "reread" ELSE "write"
    /\ UNCHANGED <<rpos, records, storage, wpos, out, err, proc, keyedFrame>>

\* sortFile's second pass: every record is read again and kept under its
\* position, or the pass fails and the process exits.
KeyedSecondPass ==
    /\ pc = "reread"
    /\ \/ /\ storage' = file
          /\ pc' = "write"
          /\ UNCHANGED <<err, proc>>
       \/ /\ err' = "read"
          /\ pc' = "exit"
          /\ proc' = exitFunc(1)
          /\ UNCHANGED storage
    /\ UNCHANGED <<rpos, items, records, wpos, out, keyedFrame>>

\* The record the write loop finds for the entry kv.
keyedRecord(kv, fn, level, byName, byOffset) ==
    IF fn = "sortFile" THEN byOffset[byName[kv.Name]]
    ELSE IF level > 0
    THEN splitRecord(byName[kv.Name].Name,
                     DecodeAll(byName[kv.Name].Data).bytes)
    ELSE byName[kv.Name]

\* One iteration of the write loop.
KeyedWrite ==
    /\ pc = "write"
    /\ wpos <= Len(items)
    /\ LET kv == items[wpos]
       IN  out' = out \o writeRecordEffect(
                            keyedRecord(kv, engine, compLevel, records, storage),
                            kv.Value,
                            parseHeaderMetrics(flags.headerMetrics).list,
                            DEFAULT_MIN_PHRED, minQual, maxQual).output
    /\ wpos' = wpos + 1
    /\ UNCHANGED <<pc, rpos, items, records, storage, err, proc, keyedFrame>>

\* The write loop is over: the function returns.
KeyedReturn ==
    /\ pc = "write"
    /\ wpos > Len(items)
    /\ pc' = "done"
    /\ UNCHANGED <<rpos, items, records, storage, wpos, out, err, proc,
                   keyedFrame>>

KeyedNext ==
    \/ KeyedRead
    \/ KeyedReadError
    \/ KeyedSort
    \/ KeyedSecondPass
    \/ KeyedWrite
    \/ KeyedReturn

SpecKeyed == KeyedInit /\ [][KeyedNext]_vars

(***************************************************************************)
(* CompactStorage on its own: Append and Get called in any order on a      *)
(* storage made by NewCompactStorage.  input keeps the slices passed to    *)
(* Append, in call order.                                                  *)
(***************************************************************************)
MaxAppends == 3         \* Append calls of a storage
MaxCompressedLen == 2   \* longest slice passed to Append

CompressedBytes == {40, 181}

CompressedSlices == SeqsUpTo(CompressedBytes, MaxCompressedLen)

ArenaInit ==
    /\ engine = "CompactStorage"
    /\ metric = AvgPhred
    /\ ascending = FALSE
    /\ input = <<>>
    /\ items = <<>>
    /\ ids = <<>>
    /\ pc = "new"
    /\ lessM = <<>>
    /\ minQual = 0
    /\ maxQual = 0
    /\ file = <<>>
    /\ rpos = 1
    /\ ch = <<>>
    /\ chClosed = FALSE
    /\ records = <<>>
    /\ idx = 1
    /\ out = <<>>
    /\ err = ""
    /\ storage = NewCompactStorage
    /\ wpos = 1
    /\ compLevel = 0
    /\ flags = <<>>
    /\ handles = <<>>
    /\ proc = <<>>
    /\ returned = <<>>

arenaFrame ==
    <<engine, metric, ascending, items, ids, lessM, minQual, maxQual, file,
      rpos, ch, chClosed, records, idx, out, err, wpos, compLevel, flags,
      handles, proc>>

\* s.Append(compressed): returns the index of the new record.
ArenaAppend ==
    /\ Len(input) < MaxAppends
    /\ \E compressed \in CompressedSlices :
          /\ storage' = CompactStorageAppend(storage, compressed)
          /\ input' = Append(input, compressed)
          /\ returned' = Len(storage.offsets) + 1
    /\ pc' = "Append"
    /\ UNCHANGED arenaFrame

\* s.Get(i) for a stored index i.
ArenaGet ==
    /\ \E i \in 1..Len(storage.offsets) :
          returned' = CompactStorageGet(storage, i)
    /\ pc' = "Get"
    /\ UNCHANGED <<storage, input>>
    /\ UNCHANGED arenaFrame

ArenaNext ==
    \/ ArenaAppend
    \/ ArenaGet

SpecArena == ArenaInit /\ [][ArenaNext]_vars

(***************************************************************************)
(* CompactStorage with large records.  The bytes of data are left out:     *)
(* data is its length, a record passed to Append is its length, and Get    *)
(* returns the bounds of the slice s.data[start : start+s.lengths[idx]],   *)
(* computed in uint32 as the code computes them.  input keeps the lengths  *)
(* passed to Append, in call order.                                        *)
(***************************************************************************)
\* Lengths of the records appended: small ones and half the uint32 range.
CompressedLens == {1, 2, Uint32Range \div 2}

NewCompactStorageLen == [data |-> 0, offsets |-> <<>>, lengths |-> <<>>]

CompactStorageAppendLen(s, compressedLen) ==
    [data |-> s.data + compressedLen,
     offsets |-> Append(s.offsets, uint32(s.data)),
     lengths |-> Append(s.lengths, uint32(compressedLen))]

\* The slice expression of Get: it panics when its bounds are out of order
\* or beyond the data.
CompactStorageGetBounds(s, i) ==
    LET start == s.offsets[i]
        end == uint32(start + s.lengths[i])
    IN  [index |-> i, panic |-> start > end \/ end > s.data,
         start |-> start, end |-> end]

LargeArenaInit ==
    /\ engine = "CompactStorageLen"
    /\ metric = AvgPhred
    /\ ascending = FALSE
    /\ input = <<>>
    /\ items = <<>>
    /\ ids = <<>>
    /\ pc = "new"
    /\ lessM = <<>>
    /\ minQual = 0
    /\ maxQual = 0
    /\ file = <<>>
    /\ rpos = 1
    /\ ch = <<>>
    /\ chClosed = FALSE
    /\ records = <<>>
    /\ idx = 1
    /\ out = <<>>
    /\ err = ""
    /\ storage = NewCompactStorageLen
    /\ wpos = 1
    /\ compLevel = 0
    /\ flags = <<>>
    /\ handles = <<>>
    /\ proc = <<>>
    /\ returned = <<>>

\* s.Append(compressed); the arena is followed up to one and a half times
\* the uint32 range.
LargeArenaAppend ==
    /\ Len(input) < MaxAppends
    /\ storage.data <= Uint32Range
    /\ \E compressedLen \in CompressedLens :
          /\ storage' = CompactStorageAppendLen(storage, compressedLen)
          /\ input' = Append(input, compressedLen)
          /\ returned' = Len(storage.offsets) + 1
    /\ pc' = "Append"
    /\ UNCHANGED arenaFrame

\* s.Get(i) for a stored index i.
LargeArenaGet ==
    /\ \E i \in 1..Len(storage.offsets) :
          returned' = CompactStorageGetBounds(storage, i)
    /\ pc' = "Get"
    /\ UNCHANGED <<storage, input>>
    /\ UNCHANGED arenaFrame

LargeArenaNext ==
    \/ LargeArenaAppend
    \/ LargeArenaGet

SpecLargeArena == LargeArenaInit /\ [][LargeArenaNext]_vars

(***************************************************************************)
(* Claims about the ordering layer                                         *)
(***************************************************************************)
\* The metric value of an entry of the list being sorted.
ValueOf(e) == IF engine = "qf" THEN e.Value ELSE e.Quality

\* x is a better value than y for metric m.
Better(m, x, y) ==
    IF m = AvgPhred THEN x > y ELSE x < y

\* C1: after sort.Sort with ascending = false, of two output positions i < j
\* whose metric values differ the one at i holds the better value: the lower
\* one for MaxEE, Meep, LQCount and LQPercent, the higher one for AvgPhred.
C1_BestFirst ==
    (pc = "sorted" /\ ~ascending) =>
        \A i \in 1..Len(items), j \in 1..Len(items) :
            (i < j /\ ValueOf(items[i]) # ValueOf(items[j])) =>
                Better(metric, ValueOf(items[i]), ValueOf(items[j]))

\* A QualityFloatList of three entries with distinct values appended worst
\* first has been sorted into best-first order.
C1_Witness ==
    /\ engine = "qf"
    /\ pc = "sorted"
    /\ ~ascending
    /\ metric = Meep
    /\ Len(input) = 3
    /\ input[1].Value = 2 /\ input[2].Value = 2 /\ input[3].Value = 1
    /\ items[1].Value = 1

\* The part of a name before its first digit, and the number its first run
\* of digits stands for.
RECURSIVE StemLen(_)
StemLen(s) == IF s = <<>> \/ IsDigit(Head(s)) THEN 0 ELSE 1 + StemLen(Tail(s))

Stem(s) == SubSeq(s, 1, StemLen(s))

NumberOf(s) ==
    LET rest == Drop(s, StemLen(s))
    IN  ParseUint(SubSeq(rest, 1, digits(rest)))

\* C2: with ascending = false, entries of a QualityFloatList with identical
\* values come out in natural order of their names: no later name is
\* naturally less than an earlier one, and of two names with the same stem
\* the one with the smaller number comes first (seq1, seq2, seq10).
C2_NaturalTieBreak ==
    (engine = "qf" /\ pc = "sorted" /\ ~ascending) =>
        \A i \in 1..Len(items), j \in 1..Len(items) :
            (i < j /\ items[i].Value = items[j].Value) =>
                /\ ~NaturalLess(items[j].Name, items[i].Name)
                /\ Stem(items[i].Name) = Stem(items[j].Name) =>
                       NumberOf(items[i].Name) <= NumberOf(items[j].Name)

\* seq10, seq2, seq1 with one value have been sorted into seq1, seq2, seq10.
C2_Witness ==
    /\ engine = "qf"
    /\ pc = "sorted"
    /\ ~ascending
    /\ Len(input) = 3
    /\ input[1].Name = seq10 /\ input[2].Name = seq2 /\ input[3].Name = seq1
    /\ input[1].Value = input[2].Value /\ input[2].Value = input[3].Value
    /\ items[1].Name = seq1 /\ items[2].Name = seq2 /\ items[3].Name = seq10

\* C3: with ascending = true, entries of a QualityFloatList with equal
\* values are still in ascending natural order of their names.
C3_AscendingKeepsTieOrder ==
    (engine = "qf" /\ pc = "sorted" /\ ascending) =>
        \A i \in 1..Len(items), j \in 1..Len(items) :
            (i < j /\ items[i].Value = items[j].Value) =>
                ~NaturalLess(items[j].Name, items[i].Name)

\* The records of a QualityFloatList as the header sort receives them: the
\* same names and values, no size annotation.
AsHeaderItems(list) ==
    [k \in 1..Len(list) |-> HeaderSortIndex(k, list[k].Value, 0, FALSE)]

AsHeaderIds(list) == [k \in 1..Len(list) |-> list[k].Name]

\* C6: on the same names and values (no size annotation), the same metric
\* and the same ascending flag, sorting with QualityFloatList and sorting
\* with HeaderSortIndexList give the same order of names.
C6_EnginesAgree ==
    (engine = "qf" /\ pc = "sorted") =>
        LET idl == AsHeaderIds(input)
            hs == SortHeaderSortIndexList(AsHeaderItems(input), idl,
                                          ascending, metric)
        IN  [k \in 1..Len(items) |-> items[k].Name]
                = [k \in 1..Len(hs) |-> idl[hs[k].Index]]

(***************************************************************************)
(* Claims about the header comparators                                     *)
(***************************************************************************)
IdAt(k) == IF engine = "hs" THEN ids[items[k].Index] ELSE items[k].ID

SizedTie(i, j) ==
    /\ items[i].Quality = items[j].Quality
    /\ items[i].HasSize /\ items[j].HasSize
    /\ items[i].Size # items[j].Size

C5_StrictTotalOrder ==
    (pc = "probed" /\ \A i \in 1..3, j \in 1..3 : i # j => IdAt(i) # IdAt(j)) =>
        /\ \A i \in 1..3 : ~lessM[<<i, i>>]
        /\ \A i \in 1..3, j \in 1..3 : lessM[<<i, j>>] => ~lessM[<<j, i>>]
        /\ \A i \in 1..3, j \in 1..3, k \in 1..3 :
              (lessM[<<i, j>>] /\ lessM[<<j, k>>]) => lessM[<<i, k>>]
        /\ \A i \in 1..3, j \in 1..3 :
              i # j => (lessM[<<i, j>>] \/ lessM[<<j, i>>])

(***************************************************************************)
(* Claims about the header-driven run                                      *)
(***************************************************************************)
RECURSIVE SumLen(_)
SumLen(chunks) ==
    IF chunks = <<>> THEN 0 ELSE Len(Head(chunks).Data) + SumLen(Tail(chunks))

\* Number of input records the consumer has taken from the channel.
Consumed == rpos - 1 - SumLen(ch)

Score(h) == parseHeaderInfo(h, metric).quality

MissingMetric(h) == ~parseHeaderInfo(h, metric).hasQual

InBounds(h) == minQual <= Score(h) /\ Score(h) <= maxQual

Written(h) == \E j \in 1..Len(out) : out[j] = h

\* C7: the quality filter has inclusive bounds: when the run has completed,
\* a record of the input has been written if and only if
\* minQual <= score <= maxQual.
C7_InclusiveFilter ==
    pc = "done" =>
        \A k \in 1..Len(file) : Written(file[k]) <=> InBounds(file[k])

\* C10: if any input record of runPresort has no annotation for the
\* requested metric, the run does not complete and no record is written,
\* and once the consumer has taken that record the run has returned an
\* error, whatever the position of the record and whatever the bounds.
C10_MissingMetricFails ==
    /\ (\E k \in 1..Len(file) : MissingMetric(file[k]))
           => (pc # "done" /\ out = <<>>)
    /\ (\E k \in 1..Consumed : MissingMetric(file[k]))
           => (pc = "error" /\ err # "")

\* The run has failed on a record without the metric that is not the first
\* record, after an in-range record was kept, under non-default bounds.
C10_Witness ==
    /\ pc = "error"
    /\ err = "missing metric"
    /\ records # <<>>
    /\ minQual = 3
    /\ Consumed >= 2
    /\ out = <<>>

(***************************************************************************)
(* Claims about the sort command                                           *)
(***************************************************************************)
\* The value the sort run files for a record, as writeRecord receives it.
FiledQuality(record) ==
    float32(calculateQuality(record, metric, DEFAULT_MIN_PHRED))

\* Whether the filter of the run lets the record through.
PassesFilter(record) == writeRecord(FiledQuality(record), minQual, maxQual)

\* The input without the records the filter rejects.
Survivors(f) == SelectSeq(f, PassesFilter)

\* What a record becomes when it goes through the store of the strategy.
roundTrip(record, level) ==
    IF level > 0
    THEN splitRecord(record.Name,
                     DecodeAll(EncodeAll(record.Seq \o record.Qual)).bytes)
    ELSE record

\* The output of the sort run on input f: index, sort, then filter and write.
SortRunOutput(f) ==
    LET names == [k \in 1..Len(f) |-> f[k].Name]
        scores == [k \in 1..Len(f) |-> QualityIndex(k, FiledQuality(f[k]))]
        sorted == SortQualityIndexList(scores, names, ascending, metric)
        EntryPasses(qi) == writeRecord(qi.Value, minQual, maxQual)
        kept == SelectSeq(sorted, EntryPasses)
    IN  [k \in 1..Len(kept) |-> roundTrip(f[kept[k].Index], compLevel)]

\* C8: dropped records do not influence the order of the surviving ones:
\* the sequence a completed sort run has written (filter after sorting)
\* equals the sequence the same run writes for the input from which the
\* rejected records were removed beforehand (filter before sorting).
C8_DroppedDoNotInfluenceOrder ==
    pc = "done" => out = SortRunOutput(Survivors(file))

\* A completed run of three records in which a rejected record was sorted
\* ahead of a survivor and the survivors were written in another order than
\* they were read.
C8_Witness ==
    /\ pc = "done"
    /\ Len(file) = 3
    /\ Len(out) = 2
    /\ ~writeRecord(items[1].Value, minQual, maxQual)
    /\ out # [k \in 1..2 |-> roundTrip(Survivors(file)[k], compLevel)]

\* C9: compression round trip: every record stored by the compressed
\* strategy is retrieved with the sequence bytes and the quality bytes of
\* the input record.
C9_CompressionRoundTrip ==
    compLevel > 0 =>
        \A i \in 1..Len(storage.offsets) :
            LET r == storedRecord(QualityIndex(i, 0), compLevel, storage,
                                  records, ids)
            IN  r.Seq = file[i].Seq /\ r.Qual = file[i].Qual

(***************************************************************************)
(* Claims about the functions                                              *)
(***************************************************************************)
HeaderMetricNames ==
    {avgphredBytes, maxeeBytes, meepBytes, lqcountBytes, lqpercentBytes,
     lengthBytes}

\* The comma-separated tokens of s, trimmed.
Tokens(s) == LET parts == SplitComma(s)
             IN  [k \in 1..Len(parts) |-> TrimSpace(parts[k])]

HasInvalidToken(s) ==
    \E k \in 1..Len(Tokens(s)) :
        Tokens(s)[k] # <<>> /\ Tokens(s)[k] \notin HeaderMetricNames

\* C14: parseHeaderMetrics returns an error and no list whenever some
\* trimmed token is non-empty and is not a metric name or "length", even
\* when other tokens are valid; it returns no error when every non-empty
\* token is one of those names.
C14_InvalidTokenIsError ==
    (engine = "parseHeaderMetrics" /\ pc = "returned") =>
        /\ HasInvalidToken(input) => (returned.err /\ returned.list = <<>>)
        /\ ~HasInvalidToken(input) => ~returned.err

\* A list with a valid token before an invalid one has been rejected.
C14_Witness ==
    /\ engine = "parseHeaderMetrics"
    /\ pc = "returned"
    /\ input = maxeeBytes \o <<44>> \o <<120>>
    /\ returned.err
    /\ returned.list = <<>>

(***************************************************************************)
(* Claims about the sort command as a process                              *)
(***************************************************************************)
HandleNames == {"reader", "writer", "encoder", "decoder"}

\* C11: guaranteed cleanup: whenever the process of a sort run has ended,
\* on the normal path and after a fatal error alike, every handle that was
\* opened has been closed, and the output has been flushed if the writer
\* was opened.
C11_CleanupOnEveryExit ==
    proc.exited =>
        /\ \A h \in HandleNames : handles[h] # "open"
        /\ handles.writer # "none" => handles.flushed

InvalidFlags ==
    \/ flags.metric \notin Metrics
    \/ compLevel < 0 \/ compLevel > 22
    \/ HasInvalidToken(flags.headerMetrics)

NothingOpened == handles.reader = "none" /\ handles.writer = "none"

\* C12 as stated: with an invalid metric name, compression level or header
\* list, the run exits with code 1 and has opened neither the reader nor
\* the writer.
C12_ConfigErrorExitsOne ==
    (InvalidFlags /\ pc # "config") =>
        (proc.exited /\ proc.code = 1 /\ NothingOpened)

\* C12: with an invalid metric name, compression level or header list, the
\* run ends in runDefaultCommand and has opened neither the reader nor the
\* writer; it exits with code 1 unless the version flag is set, in which
\* case it has printed the version and exits with code 0.
C12_ConfigErrorsPrecedeIO ==
    (InvalidFlags /\ pc # "config") =>
        /\ proc.exited
        /\ NothingOpened
        /\ proc.code = IF flags.version THEN 0 ELSE 1

\* A run with a valid metric and compression level but an invalid header
\* list has exited with code 1.
C12_Witness ==
    /\ flags.metric = MaxEE
    /\ compLevel = 1
    /\ ~flags.version
    /\ HasInvalidToken(flags.headerMetrics)
    /\ proc.exited
    /\ proc.code = 1
    /\ NothingOpened

(***************************************************************************)
(* Claims about the nosort command                                         *)
(***************************************************************************)
\* The score of a record under the metric of the run.
ScoreOf(record) == calculateQuality(record, metric, DEFAULT_MIN_PHRED)

ScoreInBounds(record) ==
    minQual <= ScoreOf(record) /\ ScoreOf(record) <= maxQual

\* C13: runNoSort preserves input order: what it has written is exactly the
\* subsequence of the records read so far whose score is within
\* [minQual, maxQual], in input order, each once.
C13_NoSortKeepsInputOrder ==
    engine = "nosort" =>
        out = SelectSeq(SubSeq(file, 1, rpos - 1), ScoreInBounds)

\* A completed run that dropped the middle record of three and kept a
\* record whose score equals minQual.
C13_Witness ==
    /\ engine = "nosort"
    /\ pc = "done"
    /\ Len(file) = 3
    /\ Len(out) = 2
    /\ out = <<file[1], file[3]>>
    /\ ScoreOf(file[1]) = minQual

\* The number of bases of qual whose Phred value is below minPhred.
LowBases(qual, minPhred) ==
    Cardinality({k \in 1..Len(qual) : qual[k] - PHRED_OFFSET < minPhred})

\* C15: for a non-empty quality string LQCount is exactly the number of
\* bases whose Phred value (byte - 33) is strictly less than minPhred, so
\* it lies between 0 and the length, and LQPercent is LQCount * 100 / length.
C15_LQCountIsStrict ==
    (engine = "calculateQuality" /\ pc = "returned"
         /\ input.record.Qual # <<>>) =>
        LET qual == input.record.Qual
            n == LowBases(qual, input.minPhred)
        IN  /\ input.metric = LQCount =>
                   /\ returned = n * Scale
                   /\ 0 <= returned /\ returned <= Len(qual) * Scale
            /\ input.metric = LQPercent =>
                   returned = FDiv(countLowQualityBases(qual, input.minPhred)
                                       * 100, Len(qual))

\* LQCount of a Phred 20 base and a Phred 10 base under minPhred = 20 is 1.
C15_Witness ==
    /\ engine = "calculateQuality"
    /\ pc = "returned"
    /\ input.metric = LQCount
    /\ input.minPhred = 20
    /\ input.record.Qual = <<53, 43>>
    /\ returned = Scale

\* C16: for an empty quality string calculateQuality returns 0.0 for
\* AvgPhred and +infinity for MaxEE, Meep, LQCount and LQPercent, for every
\* minPhred.
C16_EmptyQualityScores ==
    (engine = "calculateQuality" /\ pc = "returned"
         /\ input.record.Qual = <<>>) =>
        returned = IF input.metric = AvgPhred THEN 0 ELSE Inf

\* MaxEE of an empty quality string has been computed as +infinity.
C16_Witness ==
    /\ engine = "calculateQuality"
    /\ pc = "returned"
    /\ input.record.Qual = <<>>
    /\ input.metric = MaxEE
    /\ input.minPhred = 21
    /\ returned = Inf

(***************************************************************************)
(* Further claims about the ordering layer                                 *)
(***************************************************************************)
\* C17: sorting is idempotent: sorting the sorted QualityFloatList again,
\* with the same metric and ascending flag, leaves the order unchanged.
C17_SortIsIdempotent ==
    (engine = "qf" /\ pc = "sorted") =>
        SortQualityFloatList(items, ascending) = items

\* The permutations of 1..n.
Perms(n) == {f \in [1..n -> 1..n] : \A i, j \in 1..n : f[i] = f[j] => i = j}

DistinctNames(list) ==
    \A i, j \in 1..Len(list) : list[i].Name = list[j].Name => i = j

\* C18: reproducible output: when the names of the input are pairwise
\* distinct, the sorted QualityFloatList is the same for every order in
\* which the same entries are read, for every metric and both directions.
C18_OrderOfInputIrrelevant ==
    (engine = "qf" /\ pc = "sorted" /\ DistinctNames(input)) =>
        \A f \in Perms(Len(input)) :
            SortQualityFloatList([k \in 1..Len(input) |-> input[f[k]]],
                                 ascending) = items

\* ------------------------------------------------------------------------
\* C19: for a header in the space-separated syntax ("<id> name=value ...")
\* or in the semicolon-separated syntax ("<id>;name=value;..."), the id
\* parseHeaderInfo returns is the first whitespace-delimited token of the
\* header (the bytes before its first whitespace byte) with one leading
\* '>' or '@' removed.  In the semicolon syntax that token is the whole
\* header.
RECURSIVE FirstToken(_)
FirstToken(s) ==
    IF s = <<>> \/ IsSpace(Head(s)) THEN <<>>
    ELSE <<Head(s)>> \o FirstToken(Tail(s))

StripMarker(t) == IF HasPrefix(t, 62) \/ HasPrefix(t, 64) THEN Tail(t) ELSE t

\* The two annotation syntaxes separate with the space byte or with ';'.
InHeaderSyntax(h) == \A k \in 1..Len(h) : IsSpace(h[k]) => h[k] = 32

C20_ArenaBounds ==
    (engine = "CompactStorage") =>
        /\ Len(storage.offsets) = Len(storage.lengths)
        /\ Len(storage.offsets) = Len(input)
        /\ \A i \in 1..Len(storage.offsets) :
              storage.offsets[i] + storage.lengths[i] <= Len(storage.data)

\* Three slices have been appended, the second of them empty and the others
\* not, and Get has just returned the last one from the end of data.
C20_Witness ==
    /\ engine = "CompactStorage" /\ pc = "Get"
    /\ Len(input) = 3
    /\ input[1] # <<>> /\ input[2] = <<>> /\ input[3] # <<>>
    /\ storage.offsets[3] + storage.lengths[3] = Len(storage.data)
    /\ returned = input[3]

\* ------------------------------------------------------------------------
\* C21: appends are monotonic: an Append call returns the previous Len() as
\* the index of the new record (indices are 1-based here, so Len() + 1),
\* makes Len() one larger, and leaves the offset, the length and the bytes
\* Get returns unchanged for every index stored before the call.
C21_AppendIsMonotonic ==
    [][(engine = "CompactStorage" /\ pc' = "Append") =>
          /\ returned' = Len(storage.offsets) + 1
          /\ Len(storage'.offsets) = Len(storage.offsets) + 1
          /\ \A i \in 1..Len(storage.offsets) :
                /\ storage'.offsets[i] = storage.offsets[i]
                /\ storage'.lengths[i] = storage.lengths[i]
                /\ CompactStorageGet(storage', i) = CompactStorageGet(storage, i)
                /\ CompactStorageGet(storage', i) = input[i]]_vars

\* The third Append has returned, after two non-empty records that differ,
\* and both are still what Get returns.
C21_Witness ==
    /\ engine = "CompactStorage" /\ pc = "Append"
    /\ Len(input) = 3 /\ returned = 3
    /\ input[1] # <<>> /\ input[2] # <<>> /\ input[1] # input[2]
    /\ input[3] # <<>>
    /\ CompactStorageGet(storage, 1) = input[1]
    /\ CompactStorageGet(storage, 2) = input[2]

\* ------------------------------------------------------------------------
\* C22: the chunk channel introduces no reordering: under every interleaving
\* of the producer and the consumer, what runPresort has kept is what the
\* loop body keeps of a prefix of the input, taken in input order, each
\* record once: the whole of what the consumer has received while no error
\* has occurred, the records before the first one without the metric when
\* that error has occurred, and the whole input when the run has completed.
KeptByLoop(h) ==
    /\ ~MissingMetric(h)
    /\ presortFilter(Score(h), float32(minQual), float32(maxQual))

KeptOfPrefix(n) == SelectSeq(SubSeq(file, 1, n), KeptByLoop)

FirstMissing ==
    CHOOSE k \in 1..(Len(file) + 1) :
        /\ k <= Len(file) => MissingMetric(file[k])
        /\ \A j \in 1..(k - 1) : ~MissingMetric(file[j])

C23_ReadsPrecedeWrites ==
    engine = "qi" =>
        /\ pc = "read" => out = <<>>
        /\ out # <<>> => (rpos > Len(file) /\ err # "read")
        /\ err = "read" =>
              (out = <<>> /\ wpos = 1 /\ pc = "exit" /\ proc = exitFunc(1))

\* The read of the third record has failed after two records within the
\* bounds were read and indexed.
C23_Witness ==
    /\ engine = "qi" /\ err = "read" /\ pc = "exit"
    /\ Len(file) = 3 /\ rpos = 3
    /\ Len(items) = 2
    /\ \A k \in 1..2 : writeRecord(items[k].Value, minQual, maxQual)
    /\ out = <<>>

\* ------------------------------------------------------------------------
\* C24: a filtered record leaves no trace: a call of writeRecord with a
\* quality outside [minQualFilter, maxQualFilter] returns false, writes
\* nothing and leaves the record, its header included, as it was, whatever
\* header metrics are requested; and whether the call returns true is
\* decided by the quality argument and the two bounds alone.
C24_FilteredLeavesNoTrace ==
    (engine = "writeRecord" /\ pc = "returned") =>
        /\ returned.written <=>
              (input.minQualFilter <= input.quality
                  /\ input.quality <= input.maxQualFilter)
        /\ ~returned.written =>
              (returned.output = <<>> /\ returned.record = input.record)

\* A call with a quality above the upper bound and two header metrics
\* requested has returned false; the same call with a quality inside the
\* bounds would have annotated the header.
C24_Witness ==
    /\ engine = "writeRecord" /\ pc = "returned"
    /\ Len(input.headerMetrics) = 2
    /\ input.quality > input.maxQualFilter
    /\ input.minQualFilter < input.maxQualFilter
    /\ ~returned.written
    /\ returned.record.Name = input.record.Name
    /\ annotateRecord(input.record, input.headerMetrics, input.minPhred).Name
           # input.record.Name

\* ------------------------------------------------------------------------
\* C25: the two storage strategies are interchangeable: a completed sort
\* run, with or without compression, has written what the uncompressed
\* strategy writes for the same input and the same parameters: the same
\* records in the same order, with the same name, sequence and quality.
UncompressedOutput(f) ==
    LET names == [k \in 1..Len(f) |-> f[k].Name]
        scores == [k \in 1..Len(f) |-> QualityIndex(k, FiledQuality(f[k]))]
        sorted == SortQualityIndexList(scores, names, ascending, metric)
        EntryPasses(qi) == writeRecord(qi.Value, minQual, maxQual)
        kept == SelectSeq(sorted, EntryPasses)
    IN  [k \in 1..Len(kept) |-> f[kept[k].Index]]

C25_StrategiesInterchangeable ==
    (engine = "qi" /\ pc = "done") => out = UncompressedOutput(file)

\* ------------------------------------------------------------------------
\* C26: whatever the total number of bytes appended, the offset recorded
\* for a record is the position in data at which the record starts, and
\* Get(i) returns the slice of data that holds the i-th appended record.
RECURSIVE SumOf(_)
SumOf(lens) == IF lens = <<>> THEN 0 ELSE Head(lens) + SumOf(Tail(lens))

TrueStart(i) == SumOf(SubSeq(input, 1, i - 1))

C26_NoOffsetWrapAround ==
    engine = "CompactStorageLen" =>
        /\ \A i \in 1..Len(storage.offsets) : storage.offsets[i] = TrueStart(i)
        /\ pc = "Get" =>
              /\ ~returned.panic
              /\ returned.start = TrueStart(returned.index)
              /\ returned.end = TrueStart(returned.index) + input[returned.index]

\* ------------------------------------------------------------------------
\* C27: the index-based sort emits each record exactly once: when every
\* record of the input has a sequence and a quality of equal length, a
\* completed run of either strategy has written each input record whose
\* filed score is within the bounds as many times as it occurs in the
\* input, with its own name, sequence and quality, and nothing else, also
\* when records of the input share a name.
Occurrences(list, r) == Cardinality({k \in 1..Len(list) : list[k] = r})

EqualLengths(f) == \A k \in 1..Len(f) : Len(f[k].Seq) = Len(f[k].Qual)

C28_NameKeyedExactlyOnce ==
    (engine \in {"sortStdin", "sortFile"} /\ pc = "done") =>
        /\ \A k \in 1..Len(file) :
              Occurrences(out, file[k]) =
                  IF ScoreInBounds(file[k]) THEN Occurrences(file, file[k]) ELSE 0
        /\ \A j \in 1..Len(out) : \E k \in 1..Len(file) : out[j] = file[k]

\* ------------------------------------------------------------------------
\* C29: with the bounds left at their defaults no record is dropped: a
\* completed run has written as many records as the input holds, for every
\* metric, records with an empty quality string included.
DefaultBounds == minQual = -MaxFloat64 /\ maxQual = MaxFloat64

C29_DefaultsDropNothing ==
    (engine \in {"qi", "nosort"} /\ pc = "done" /\ DefaultBounds) =>
        Len(out) = Len(file)

\* ------------------------------------------------------------------------
\* C30: runPresort terminates on every finite input: the loop of runPresort
\* eventually ends, with an error or with every kept record written, and
\* the goroutine that fills the channel eventually ends too (it closes the
\* channel): neither is left blocked on the channel forever, an early
\* error return included.
ConsumerEnded == pc \in {"done", "error"}

ProducerEnded == chClosed

C30_PresortTerminates == <>(ConsumerEnded /\ ProducerEnded)

====
